---- MODULE Spec2Model ----
(***************************************************************************)
(* A model of macors: the capture session (record), the Run command and    *)
(* playback (start_playback, Event::simulate), and the action selector     *)
(* (parse_action, find_event_index).                                       *)
(***************************************************************************)
EXTENDS Integers, Sequences, FiniteSets, TLC

(***************************************************************************)
(* Bounds of the model.                                                    *)
(***************************************************************************)
\* number of hook events delivered to one capture session
MaxHook == 4
\* largest ordinal written in an action string
MaxOrdinal == 11
\* length of the event lists searched by a selector
MaxLen == 4
\* length of the macros played by the Run command
MaxMacroLen == 3
\* largest --repeat given to the Run command
MaxRepeat == 2
\* length of the macros listed by the Show command
MaxShowLen == 4
\* lines of the description and events of the macros written to the store
MaxDescLines == 3
MaxStoreLen == 2
MaxDir == 3

(***************************************************************************)
(* Values.                                                                 *)
(***************************************************************************)
None == <<>>
Some(x) == <<x>>

\* rdev::Key and rdev::Button values, named by their Debug rendering
Keys == {"KeyA", "Escape"}
Buttons == {"Left", "Right"}
\* pointer positions (x, y)
Positions == {<<0, 0>>, <<5, 5>>}
\* the pointer position queried when the session starts
StartPos == <<0, 0>>

\* macors::Event
Wait(ms) == [type |-> "wait", ms |-> ms]
KeyPress(k) == [type |-> "key_press", key |-> k]
KeyRelease(k) == [type |-> "key_release", key |-> k]
MousePress(b, p) == [type |-> "mouse_press", button |-> b, x |-> p[1], y |-> p[2]]
MouseRelease(b, p) == [type |-> "mouse_release", button |-> b, x |-> p[1], y |-> p[2]]
MouseMove(p) == [type |-> "mouse_move", x |-> p[1], y |-> p[2]]

\* rdev::EventType, as delivered by the hook (button events carry no position)
HookKeyPress(k) == [type |-> "KeyPress", key |-> k]
HookKeyRelease(k) == [type |-> "KeyRelease", key |-> k]
HookButtonPress(b) == [type |-> "ButtonPress", button |-> b]
HookButtonRelease(b) == [type |-> "ButtonRelease", button |-> b]
HookMouseMove(p) == [type |-> "MouseMove", x |-> p[1], y |-> p[2]]
HookWheel == [type |-> "Wheel"]

\* config::WaitStrategy
Actual == [kind |-> "Actual"]
ConstantMS(ms) == [kind |-> "ConstantMS", ms |-> ms]

\* config::default_recording_initial_wait_ms
DefaultInitialWaitMs == 100

\* the recording configurations of the model: config::Config without the
\* countdown, which record() does not read
StopKeystrokes == {<<>>, <<"Escape", "KeyA">>, <<"Escape", "Escape", "Escape">>}
WaitStrategies == {Actual, ConstantMS(100), ConstantMS(40)}
Configs ==
    [stop_keystrokes : StopKeystrokes,
     wait_strategy : WaitStrategies,
     record_non_drag_mouse_moves : BOOLEAN,
     recording_initial_wait_ms : {DefaultInitialWaitMs}]

\* the absent macro file
NoFile == [exists |-> FALSE]
\* a macro file holding Macro { description, events }
MacroFile(evs) == [exists |-> TRUE, events |-> evs]
\* a macro file that toml::from_str rejects
CorruptFile == [exists |-> TRUE, corrupt |-> TRUE]

(***************************************************************************)
(* Strings are sequences of one-character strings.                         *)
(***************************************************************************)
S_mouse_press == <<"m", "o", "u", "s", "e", "_", "p", "r", "e", "s", "s">>
S_mouse_release == <<"m", "o", "u", "s", "e", "_", "r", "e", "l", "e", "a", "s", "e">>
S_mouse_move == <<"m", "o", "u", "s", "e", "_", "m", "o", "v", "e">>
S_wait == <<"w", "a", "i", "t">>
S_key_press == <<"k", "e", "y", "_", "p", "r", "e", "s", "s">>
S_key_release == <<"k", "e", "y", "_", "r", "e", "l", "e", "a", "s", "e">>

\* the Debug rendering of an rdev::Key or rdev::Button
DebugName(v) ==
    CASE v = "KeyA" -> <<"K", "e", "y", "A">>
      [] v = "KeyB" -> <<"K", "e", "y", "B">>
      [] v = "Escape" -> <<"E", "s", "c", "a", "p", "e">>
      [] v = "Left" -> <<"L", "e", "f", "t">>
      [] v = "Right" -> <<"R", "i", "g", "h", "t">>

UpperCase == <<"A", "B", "C", "D", "E", "F", "G", "H", "I", "J", "K", "L", "M", "N", "O", "P", "Q", "R", "S", "T", "U", "V", "W", "X", "Y", "Z">>
LowerCase == <<"a", "b", "c", "d", "e", "f", "g", "h", "i", "j", "k", "l", "m", "n", "o", "p", "q", "r", "s", "t", "u", "v", "w", "x", "y", "z">>
DigitChars == <<"0", "1", "2", "3", "4", "5", "6", "7", "8", "9">>

\* char::to_ascii_lowercase
ToAsciiLower(c) ==
    IF \E i \in 1..26 : UpperCase[i] = c
    THEN LowerCase[CHOOSE i \in 1..26 : UpperCase[i] = c]
    ELSE c

\* str::eq_ignore_ascii_case
EqIgnoreAsciiCase(a, b) ==
    /\ Len(a) = Len(b)
    /\ \A i \in 1..Len(a) : ToAsciiLower(a[i]) = ToAsciiLower(b[i])

\* char::is_ascii_digit
IsAsciiDigit(c) == \E i \in 1..10 : DigitChars[i] = c
DigitValue(c) == (CHOOSE i \in 1..10 : DigitChars[i] = c) - 1

\* str::split(sep), collected: every separator ends a segment
RECURSIVE Split(_, _)
Split(str, sep) ==
    IF str = <<>> THEN << <<>> >>
    ELSE LET rest == Split(Tail(str), sep)
         IN  IF Head(str) = sep
             THEN << <<>> >> \o rest
             ELSE << <<Head(str)>> \o Head(rest) >> \o Tail(rest)

\* ord_raw.chars().filter(|c| c.is_ascii_digit()).collect()
RECURSIVE FilterDigits(_)
FilterDigits(str) ==
    IF str = <<>> THEN <<>>
    ELSE IF IsAsciiDigit(Head(str))
         THEN <<Head(str)>> \o FilterDigits(Tail(str))
         ELSE FilterDigits(Tail(str))

\* mutant of DecimalValue: only the first digit is read
DecimalValue_FirstDigit(digits) ==
    IF digits = <<>> THEN 0 ELSE DigitValue(digits[1])

\* the value of a non-empty digit string (digits.parse::<usize>())
RECURSIVE DecimalValue(_)
DecimalValue(digits) ==
    IF digits = <<>> THEN 0
    ELSE 10 * DecimalValue(SubSeq(digits, 1, Len(digits) - 1))
         + DigitValue(digits[Len(digits)])

Ok(v) == [ok |-> TRUE, value |-> v]
Err(reason) == [ok |-> FALSE, err |-> reason]

\* main::EventSelector: MouseMove and Wait carry no detail
SelMousePress(d) == [kind |-> "mouse_press", detail |-> d]
SelMouseRelease(d) == [kind |-> "mouse_release", detail |-> d]
SelMouseMove == [kind |-> "mouse_move"]
SelWait == [kind |-> "wait"]
SelKeyPress(d) == [kind |-> "key_press", detail |-> d]
SelKeyRelease(d) == [kind |-> "key_release", detail |-> d]

\* main::ActionSelector
ActionSelector(sel, n) == [selector |-> sel, ordinal |-> n]

\* the match on the kind token
SelectorOfKind(kind, detail) ==
    CASE kind = S_mouse_press -> Ok(SelMousePress(detail))
      [] kind = S_mouse_release -> Ok(SelMouseRelease(detail))
      [] kind = S_mouse_move -> Ok(SelMouseMove)
      [] kind = S_wait -> Ok(SelWait)
      [] kind = S_key_press -> Ok(SelKeyPress(detail))
      [] kind = S_key_release -> Ok(SelKeyRelease(detail))
      [] OTHER -> Err("unsupported event kind")

\* main::parse_action
parse_action(str) ==
    LET parts == Split(str, ":")
        head == parts[1]
        digits == FilterDigits(parts[2])
        name_parts == Split(head, ".")
        kind == name_parts[1]
        detail == IF Len(name_parts) >= 2 THEN Some(name_parts[2]) ELSE None
        sel == SelectorOfKind(kind, detail)
    IN  IF Len(parts) < 2 THEN Err("missing ordinal after ':'")
        ELSE IF Len(parts) > 2 THEN Err("too many ':' segments")
        ELSE IF digits = <<>> THEN Err("ordinal is not a number")
        ELSE IF Len(name_parts) > 2 THEN Err("too many '.' segments")
        ELSE IF ~sel.ok THEN sel
        ELSE Ok(ActionSelector(sel.value, DecimalValue(digits)))

\* main::button_eq and main::key_eq
name_eq(name, v) == EqIgnoreAsciiCase(name, DebugName(v))

\* main::matches_selector
matches_selector(ev, sel) ==
    CASE sel.kind = "wait" -> ev.type = "wait"
      [] sel.kind = "mouse_move" -> ev.type = "mouse_move"
      [] sel.kind \in {"mouse_press", "mouse_release"} ->
            /\ ev.type = sel.kind
            /\ sel.detail # None => name_eq(sel.detail[1], ev.button)
      [] sel.kind \in {"key_press", "key_release"} ->
            /\ ev.type = sel.kind
            /\ sel.detail # None => name_eq(sel.detail[1], ev.key)

\* the scan of find_event_index from 0-based index idx with seen matches so far
RECURSIVE ScanFrom(_, _, _, _)
ScanFrom(evs, asel, idx, seen) ==
    IF idx >= Len(evs) THEN None
    ELSE IF matches_selector(evs[idx + 1], asel.selector)
         THEN IF seen + 1 = asel.ordinal
              THEN Some(idx)
              ELSE ScanFrom(evs, asel, idx + 1, seen + 1)
         ELSE ScanFrom(evs, asel, idx + 1, seen)

\* mutant of find_event_index: the counter starts at one
find_event_index_CountsFromOne(evs, asel) == ScanFrom(evs, asel, 0, 1)

\* main::find_event_index: the 0-based index of the ordinal-th match
find_event_index(evs, asel) == ScanFrom(evs, asel, 0, 0)

VARIABLES
    cfg,              \* record: cfg_ captured by the callback
    events,           \* record: mcro.events, the accumulator
    mouse_pos,        \* record: tracked pointer position
    mouse_pressed,    \* record: button-down flag
    recent_keys,      \* record: trailing-keys window
    last_event_time,  \* record: Option<Instant>, in ms
    file,             \* the macro file <name>.toml
    pc,               \* "listening" | "stopped" (record); position in main (Run)
    now,              \* the clock (ms) at the last hook delivery
    delivered,        \* the hook's delivery log: <<[ev, t, rec]>>
    dev_null,         \* record: whether File::create("/dev/null") succeeds
    writes,           \* record: the calls of fs::write made
    raw,              \* parse_action: the action string, a sequence of characters
    parsed,           \* parse_action: None before the call, Some(result) after
    sel_events,       \* find_event_index: the event list
    selector,         \* find_event_index: the ActionSelector
    found,            \* find_event_index: None before the call, Some(result) after
    repeat,           \* Run: --repeat
    action,           \* Run: --action, Option<String>
    action_event,     \* Run: the event resolved from the action, if any
    rep,              \* Run: repetitions of the repeat loop completed
    play_events,      \* start_playback: evs.events being replayed
    play_idx,         \* start_playback: events of this repetition already simulated
    issued,           \* the synthetic input requests made and the sleeps taken
    report,           \* the messages printed for failures
    stat,             \* Show: --stat
    all,              \* Show: --all
    show_idx,         \* Show: idx, the cursor of the display loop
    shown,            \* Show: the number of items rendered
    stats,            \* Show: the HashMap from label to count
    printed,          \* Show: the lines printed
    collapse_log,     \* Show: the calls of try_collapse_click and their results
    store_macro,      \* record: the Macro handed to toml::to_string
    contents,         \* the text of a macro file, a sequence of lines
    loaded,           \* start_playback: the result of toml::from_str
    overwrite,        \* Rec: --overwrite
    editor_env,       \* Edit: the value of $EDITOR, if set and not empty
    action_flag,      \* Edit: --action, Option<String>
    launched,         \* Edit: the editor processes started, by target
    dir,              \* Ls: the entries of the macros directory, as read_dir yields them
    dir_idx,          \* Ls: the entries read_dir has yielded
    listed            \* Ls: the entries printed

recVars == <<cfg, events, mouse_pos, mouse_pressed, recent_keys, last_event_time,
             now, delivered, dev_null, writes>>
parseVars == <<raw, parsed>>
findVars == <<sel_events, selector, found>>
runVars == <<repeat, action, action_event, rep, play_events, play_idx, issued, report>>
showVars == <<stat, all, show_idx, shown, stats, printed, collapse_log>>
storeVars == <<store_macro, contents, loaded>>
editVars == <<editor_env, action_flag, launched>>
lsVars == <<dir, dir_idx, listed>>
cmdVars == <<showVars, storeVars, editVars, overwrite, lsVars>>
vars == <<recVars, file, pc, parseVars, findVars, runVars, cmdVars>>

(***************************************************************************)
(* The parts of the state a specification does not use stay idle.          *)
(***************************************************************************)
ParseIdle == raw = <<>> /\ parsed = None
FindIdle == sel_events = <<>> /\ selector = ActionSelector(SelWait, 1) /\ found = None
RecIdle ==
    /\ cfg = [stop_keystrokes |-> <<"Escape", "Escape", "Escape">>,
              wait_strategy |-> ConstantMS(100),
              record_non_drag_mouse_moves |-> FALSE,
              recording_initial_wait_ms |-> DefaultInitialWaitMs]
    /\ events = <<>>
    /\ mouse_pos = StartPos
    /\ mouse_pressed = FALSE
    /\ recent_keys = <<>>
    /\ last_event_time = None
    /\ now = 0
    /\ delivered = <<>>
    /\ dev_null = TRUE
    /\ writes = 0

RunIdle ==
    /\ repeat = 0
    /\ action = None
    /\ action_event = None
    /\ rep = 0
    /\ play_events = <<>>
    /\ play_idx = 0
    /\ issued = <<>>
    /\ report = <<>>

\* HashMap::new()
EmptyStats == [l \in {} |-> 0]

ShowIdle ==
    /\ stat = FALSE
    /\ all = FALSE
    /\ show_idx = 0
    /\ shown = 0
    /\ stats = EmptyStats
    /\ printed = <<>>
    /\ collapse_log = <<>>
StoreIdle == store_macro = None /\ contents = <<>> /\ loaded = None
EditIdle == editor_env = None /\ action_flag = None /\ launched = <<>>
LsIdle == dir = <<>> /\ dir_idx = 0 /\ listed = <<>>
CmdIdle == ShowIdle /\ StoreIdle /\ EditIdle /\ overwrite = FALSE /\ LsIdle

(***************************************************************************)
(* parse_action applied to action strings: SpecParse.                      *)
(***************************************************************************)
\* the decimal rendering of n
RECURSIVE Decimal(_)
Decimal(n) ==
    IF n < 10 THEN <<DigitChars[n + 1]>>
    ELSE Decimal(n \div 10) \o <<DigitChars[(n % 10) + 1]>>

KindTokens == {S_mouse_press, S_mouse_release, S_mouse_move, S_wait,
               S_key_press, S_key_release}
\* details written after the '.': button and key names in several cases
DetailTexts == {<<"L", "e", "f", "t">>, <<"l", "e", "f", "t">>, <<"K", "e", "y", "A">>, <<"E", "S", "C", "A", "P", "E">>}
\* text tolerated after the digits
OrdinalSuffixes == {<<>>, <<"t", "h">>}

\* the address k[.d]:n, as written on the command line
Address(k, d, n, suffix) ==
    k \o (IF d = None THEN <<>> ELSE <<".">> \o d[1]) \o <<":">> \o Decimal(n) \o suffix

WellFormedAddresses ==
    {Address(k, d, n, suffix) :
        k \in KindTokens, d \in {None} \cup {Some(t) : t \in DetailTexts},
        n \in 1..MaxOrdinal, suffix \in OrdinalSuffixes}

\* action strings outside the grammar
MalformedActions ==
    {<<>>,
     <<"k", "e", "y", "_", "p", "r", "e", "s", "s">>,
     <<"k", "e", "y", "_", "p", "r", "e", "s", "s", ":">>,
     <<"k", "e", "y", "_", "p", "r", "e", "s", "s", ":", "x">>,
     <<"k", "e", "y", "_", "p", "r", "e", "s", "s", ":", "0">>,
     <<"w", "a", "i", "t", ":", "1", ":", "2">>,
     <<"k", "e", "y", "_", "p", "r", "e", "s", "s", ".", "K", "e", "y", "A", ".", "x", ":", "1">>,
     <<"c", "l", "i", "c", "k", ":", "1">>,
     <<":", "1">>}

ParseAction ==
    /\ pc = "parse"
    /\ parsed = None
    /\ parsed' = Some(parse_action(raw))
    /\ UNCHANGED <<recVars, file, pc, raw, findVars, runVars, cmdVars>>

InitParse ==
    /\ RecIdle
    /\ FindIdle
    /\ RunIdle
    /\ CmdIdle
    /\ file = NoFile
    /\ pc = "parse"
    /\ raw \in WellFormedAddresses \cup MalformedActions
    /\ parsed = None

SpecParse == InitParse /\ [][ParseAction]_vars

(***************************************************************************)
(* find_event_index applied to event lists and selectors: SpecFind.        *)
(***************************************************************************)
FindAlphabet ==
    {MousePress("Left", <<0, 0>>), MouseRelease("Left", <<0, 0>>),
     MousePress("Left", <<5, 5>>), MouseRelease("Left", <<5, 5>>),
     MousePress("Right", <<0, 0>>), KeyPress("KeyA")}
FindLists == UNION {[1..n -> FindAlphabet] : n \in 0..MaxLen}
FindSelectors ==
    {SelMousePress(None), SelMousePress(Some(<<"L", "e", "f", "t">>)), SelMousePress(Some(<<"r", "i", "g", "h", "t">>)),
     SelMouseRelease(None), SelMouseRelease(Some(<<"L", "E", "F", "T">>)),
     SelKeyPress(None), SelKeyPress(Some(<<"k", "e", "y", "a">>)), SelKeyRelease(None),
     SelMouseMove, SelWait}

FindEventIndex ==
    /\ pc = "find"
    /\ found = None
    /\ found' = Some(find_event_index(sel_events, selector))
    /\ UNCHANGED <<recVars, file, pc, parseVars, sel_events, selector, runVars, cmdVars>>

InitFind ==
    /\ RecIdle
    /\ ParseIdle
    /\ RunIdle
    /\ CmdIdle
    /\ file = NoFile
    /\ pc = "find"
    /\ sel_events \in FindLists
    /\ selector \in {ActionSelector(sel, n) : sel \in FindSelectors, n \in 1..(MaxLen + 1)}
    /\ found = None

SpecFind == InitFind /\ [][FindEventIndex]_vars

(***************************************************************************)
(* The Run command (main.rs 123-192), start_playback and Event::simulate:  *)
(* SpecRun.                                                                *)
(***************************************************************************)
\* a request handed to rdev::simulate, and a thread::sleep
Request(e) == [op |-> "simulate", event |-> e]
Sleep(ms) == [op |-> "sleep", ms |-> ms]

\* mutant of SimulateSteps: a button event issues the button transition only
SimulateSteps_NoMove(ev) ==
    CASE ev.type = "key_press" -> <<Request(HookKeyPress(ev.key))>>
      [] ev.type = "key_release" -> <<Request(HookKeyRelease(ev.key))>>
      [] ev.type = "mouse_press" -> <<Sleep(1), Request(HookButtonPress(ev.button))>>
      [] ev.type = "mouse_move" -> <<Request(HookMouseMove(<<ev.x, ev.y>>))>>
      [] ev.type = "mouse_release" -> <<Sleep(1), Request(HookButtonRelease(ev.button))>>
      [] ev.type = "wait" -> <<Sleep(ev.ms)>>

\* Event::simulate: the requests and sleeps of one event, in order
SimulateSteps(ev) ==
    CASE ev.type = "key_press" -> <<Request(HookKeyPress(ev.key))>>
      [] ev.type = "key_release" -> <<Request(HookKeyRelease(ev.key))>>
      [] ev.type = "mouse_press" ->
            <<Request(HookMouseMove(<<ev.x, ev.y>>)), Sleep(1),
              Request(HookButtonPress(ev.button))>>
      [] ev.type = "mouse_move" -> <<Request(HookMouseMove(<<ev.x, ev.y>>))>>
      [] ev.type = "mouse_release" ->
            <<Request(HookMouseMove(<<ev.x, ev.y>>)), Sleep(1),
              Request(HookButtonRelease(ev.button))>>
      [] ev.type = "wait" -> <<Sleep(ev.ms)>>

\* mutant of SimulateOutcomes: the rest of the event is carried out after a
\* failed request
SimulateOutcomes_GoesOn(ev) ==
    LET steps == SimulateSteps(ev)
    IN  {[done |-> steps, ok |-> TRUE]} \cup
        {[done |-> SubSeq(steps, 1, j - 1) \o SubSeq(steps, j + 1, Len(steps)),
          ok |-> FALSE] :
            j \in {i \in 1..Len(steps) : steps[i].op = "simulate"}}

\* what one call of Event::simulate can do: every request may fail, and the
\* unwrap of a failed request panics before anything later is done
SimulateOutcomes(ev) ==
    LET steps == SimulateSteps(ev)
    IN  {[done |-> steps, ok |-> TRUE]} \cup
        {[done |-> SubSeq(steps, 1, j - 1), ok |-> FALSE] :
            j \in {i \in 1..Len(steps) : steps[i].op = "simulate"}}

\* toml::from_str::<Macro> of the file's contents
ParseMacroFile(f) ==
    IF "events" \in DOMAIN f THEN Ok(f.events) ELSE Err("Failed to deserialize macro file")

\* mutant of LoopDone: the range includes its upper end
LoopDone_Inclusive(done, n) == done > n

\* the repeat loop `for _ in 0..*repeat` has run out
LoopDone(done, n) == done >= n

\* mutant of RunsSingleEvent: the resolved event is not looked at
RunsSingleEvent_Never(ae) == FALSE

\* `if let Some(ev) = &action_event`
RunsSingleEvent(ae) == ae # None

\* mutant of OrdinalRejected: the ordinal is not looked at
OrdinalRejected_Never(n) == FALSE

\* `if selector.ordinal == 0`
OrdinalRejected(n) == n = 0

\* main.rs 123-168: the file check and the resolution of the action; an
\* invalid action is reported with the reason given by parse_action
RunStart ==
    /\ pc = "run"
    /\ IF ~file.exists
       THEN /\ report' = Append(report, "not found")
            /\ pc' = "done"
            /\ UNCHANGED action_event
       ELSE IF action = None
       THEN /\ pc' = "loop"
            /\ UNCHANGED <<action_event, report>>
       ELSE LET mcro == ParseMacroFile(file)
                sel == parse_action(action[1])
                op_idx == find_event_index(mcro.value, sel.value)
            IN  IF ~mcro.ok
                THEN /\ report' = Append(report, mcro.err)
                     /\ pc' = "done"
                     /\ UNCHANGED action_event
                ELSE IF ~sel.ok
                THEN /\ report' = Append(report, sel.err)
                     /\ pc' = "done"
                     /\ UNCHANGED action_event
                ELSE IF OrdinalRejected(sel.value.ordinal)
                THEN /\ report' = Append(report, "Ordinal must be 1 or greater")
                     /\ pc' = "done"
                     /\ UNCHANGED action_event
                ELSE IF op_idx = None
                THEN /\ report' = Append(report, "No matching event found")
                     /\ pc' = "done"
                     /\ UNCHANGED action_event
                ELSE /\ action_event' = Some(mcro.value[op_idx[1] + 1])
                     /\ pc' = "loop"
                     /\ UNCHANGED report
    /\ UNCHANGED <<recVars, file, parseVars, findVars, cmdVars, repeat, action, rep,
                   play_events, play_idx, issued>>

\* main.rs 185-187: one repetition simulates the resolved event
RunSingle ==
    /\ pc = "loop"
    /\ ~LoopDone(rep, repeat)
    /\ RunsSingleEvent(action_event)
    /\ \E o \in SimulateOutcomes(action_event[1]) :
           /\ issued' = issued \o o.done
           /\ IF o.ok
              THEN rep' = rep + 1 /\ pc' = pc
              ELSE rep' = rep /\ pc' = "panicked"
    /\ UNCHANGED <<recVars, file, parseVars, findVars, cmdVars, repeat, action, action_event,
                   play_events, play_idx, report>>

\* main.rs 189, macors.rs 159-176: one repetition loads the macro
StartPlayback ==
    /\ pc = "loop"
    /\ ~LoopDone(rep, repeat)
    /\ ~RunsSingleEvent(action_event)
    /\ IF ~file.exists
       THEN /\ report' = Append(report, "Macro not found")
            /\ rep' = rep + 1
            /\ UNCHANGED <<pc, play_events, play_idx>>
       ELSE LET evs == ParseMacroFile(file)
            IN  IF ~evs.ok
                THEN /\ report' = Append(report, evs.err)
                     /\ rep' = rep + 1
                     /\ UNCHANGED <<pc, play_events, play_idx>>
                ELSE /\ play_events' = evs.value
                     /\ play_idx' = 0
                     /\ pc' = "playing"
                     /\ UNCHANGED <<rep, report>>
    /\ UNCHANGED <<recVars, file, parseVars, findVars, cmdVars, repeat, action, action_event,
                   issued>>

\* macors.rs 178-181: ev.simulate() for the next event of the macro
PlayEvent ==
    /\ pc = "playing"
    /\ play_idx < Len(play_events)
    /\ \E o \in SimulateOutcomes(play_events[play_idx + 1]) :
           /\ issued' = issued \o o.done
           /\ IF o.ok
              THEN play_idx' = play_idx + 1 /\ pc' = pc
              ELSE play_idx' = play_idx /\ pc' = "panicked"
    /\ UNCHANGED <<recVars, file, parseVars, findVars, cmdVars, repeat, action, action_event,
                   rep, play_events, report>>

\* macors.rs 181-182: the events are exhausted and start_playback returns
PlaybackReturn ==
    /\ pc = "playing"
    /\ play_idx >= Len(play_events)
    /\ rep' = rep + 1
    /\ pc' = "loop"
    /\ UNCHANGED <<recVars, file, parseVars, findVars, cmdVars, repeat, action, action_event,
                   play_events, play_idx, issued, report>>

\* main.rs 185-192: the repeat loop ends and main returns
RunDone ==
    /\ pc = "loop"
    /\ LoopDone(rep, repeat)
    /\ pc' = "done"
    /\ UNCHANGED <<recVars, file, parseVars, findVars, runVars, cmdVars>>

\* the events a stored macro is made of, and the stored macros
RunAlphabet ==
    {Wait(100), KeyPress("KeyA"), KeyRelease("KeyA"),
     MousePress("Left", <<5, 5>>), MouseRelease("Left", <<5, 5>>),
     MouseMove(<<0, 0>>)}
RunFiles ==
    {NoFile, CorruptFile} \cup
    {MacroFile(evs) : evs \in UNION {[1..n -> RunAlphabet] : n \in 0..MaxMacroLen}}
\* the values of --action
RunActions ==
    {None,
     Some(<<"k", "e", "y", "_", "p", "r", "e", "s", "s", ":", "1">>),
     Some(<<"w", "a", "i", "t", ":", "2">>),
     Some(<<"m", "o", "u", "s", "e", "_", "p", "r", "e", "s", "s", ".", "l", "e", "f", "t", ":", "1">>),
     Some(<<"k", "e", "y", "_", "r", "e", "l", "e", "a", "s", "e", ".", "K", "e", "y", "A", ":", "1", "s", "t">>),
     Some(<<"k", "e", "y", "_", "p", "r", "e", "s", "s", ":", "0">>),
     Some(<<"k", "e", "y", "p", "r", "e", "s", "s", ":", "1">>),
     Some(<<"k", "e", "y", "_", "p", "r", "e", "s", "s">>),
     Some(<<"k", "e", "y", "_", "p", "r", "e", "s", "s", ":", "t", "h">>),
     Some(<<"w", "a", "i", "t", ":", "1", ":", "2">>),
     Some(<<"k", "e", "y", "_", "p", "r", "e", "s", "s", ".", "K", "e", "y", "A", ".", "x", ":", "1">>),
     Some(<<"w", "a", "i", "t", ":", "0", "x", "2">>)}

InitRun ==
    /\ RecIdle
    /\ ParseIdle
    /\ FindIdle
    /\ CmdIdle
    /\ file \in RunFiles
    /\ pc = "run"
    /\ repeat \in 0..MaxRepeat
    /\ action \in RunActions
    /\ action_event = None
    /\ rep = 0
    /\ play_events = <<>>
    /\ play_idx = 0
    /\ issued = <<>>
    /\ report = <<>>

NextRun ==
    \/ RunStart
    \/ RunSingle
    \/ StartPlayback
    \/ PlayEvent
    \/ PlaybackReturn
    \/ RunDone

SpecRun == InitRun /\ [][NextRun]_vars

(***************************************************************************)
(* The macro file as text (macors.rs 125-134 and 165-176): SpecStore.      *)
(* A text is a sequence of lines, each ended by a newline; a line is the   *)
(* sequence of its words.  A description is the sequence of its lines.     *)
(***************************************************************************)
\* macors::Macro
Macro(description, evs) == [description |-> description, events |-> evs]

BlankLine == <<>>
MarkerLine == <<"[[events]]">>
TripleQuote == "\"\"\""
IsBlank(line) == Len(line) = 0
\* the line ends with the text [[events]]
EndsWithMarker(line) == Len(line) = 1 /\ line[1] = "[[events]]"

\* a line of text inside a multi-line string
TextLine(t) == IF t = "" THEN BlankLine ELSE <<t>>
TextOf(line) == IF IsBlank(line) THEN "" ELSE line[1]

\* the description, as toml::to_string writes a string: on one line, or as
\* a multi-line string when it holds a newline
DescriptionLines(d) ==
    IF Len(d) = 1 THEN << <<"description", "=", d[1]>> >>
    ELSE << <<"description", "=", TripleQuote>> >>
         \o [i \in 1..(Len(d) - 1) |-> TextLine(d[i])]
         \o << <<d[Len(d)], TripleQuote>> >>

\* one element of the array of tables: the marker and the tagged variant
EventLines(ev) ==
    CASE ev.type = "wait" -> <<MarkerLine, <<"wait", "=", ev.ms>> >>
      [] ev.type \in {"key_press", "key_release"} ->
            <<MarkerLine, <<ev.type, "=", ev.key>> >>
      [] ev.type \in {"mouse_press", "mouse_release"} ->
            <<MarkerLine, BlankLine, <<"[events]", ev.type>>,
              <<"x", "=", ev.x>>, <<"y", "=", ev.y>>, <<"button", "=", ev.button>> >>
      [] ev.type = "mouse_move" ->
            <<MarkerLine, BlankLine, <<"[events]", ev.type>>,
              <<"x", "=", ev.x>>, <<"y", "=", ev.y>> >>

RECURSIVE AllEventLines(_)
AllEventLines(evs) ==
    IF evs = <<>> THEN <<>>
    ELSE <<BlankLine>> \o EventLines(Head(evs)) \o AllEventLines(Tail(evs))

\* toml::to_string(&events)
to_string(m) == DescriptionLines(m.description) \o AllEventLines(m.events)

\* toml_string.replace("[[events]]\n\n", "[[events]]\n"): every occurrence,
\* left to right, of the marker text followed by an empty line loses the
\* empty line
RECURSIVE TidyMarkers(_)
TidyMarkers(lines) ==
    IF Len(lines) < 2 THEN lines
    ELSE IF EndsWithMarker(lines[1]) /\ IsBlank(lines[2])
    THEN <<lines[1]>> \o TidyMarkers(SubSeq(lines, 3, Len(lines)))
    ELSE <<lines[1]>> \o TidyMarkers(Tail(lines))

\* the lines of a multi-line string up to its closing quotes, and what
\* follows them
RECURSIVE MultiLine(_, _)
MultiLine(lines, acc) ==
    IF lines = <<>> THEN Err("unterminated string")
    ELSE IF Len(Head(lines)) = 2 /\ Head(lines)[2] = TripleQuote
    THEN Ok([text |-> Append(acc, Head(lines)[1]), rest |-> Tail(lines)])
    ELSE MultiLine(Tail(lines), Append(acc, TextOf(Head(lines))))

\* the value of the description key at the head of the text
ParseDescription(lines) ==
    IF lines = <<>> \/ Len(Head(lines)) # 3 \/ Head(lines)[1] # "description"
    THEN Err("missing field description")
    ELSE IF Head(lines)[3] = TripleQuote
    THEN MultiLine(Tail(lines), <<>>)
    ELSE Ok([text |-> <<Head(lines)[3]>>, rest |-> Tail(lines)])

\* the array of tables: blank lines between tables and keys mean nothing
RECURSIVE ParseEvents(_, _)
ParseEvents(lines, acc) ==
    LET body == SelectSeq(lines, LAMBDA l : ~IsBlank(l))
    IN  IF body = <<>> THEN Ok(acc)
        ELSE IF ~EndsWithMarker(body[1]) \/ Len(body) < 2 THEN Err("invalid events")
        ELSE IF Len(body[2]) = 3 /\ body[2][1] = "wait"
        THEN ParseEvents(SubSeq(body, 3, Len(body)), Append(acc, Wait(body[2][3])))
        ELSE IF Len(body[2]) = 3 /\ body[2][1] = "key_press"
        THEN ParseEvents(SubSeq(body, 3, Len(body)), Append(acc, KeyPress(body[2][3])))
        ELSE IF Len(body[2]) = 3 /\ body[2][1] = "key_release"
        THEN ParseEvents(SubSeq(body, 3, Len(body)), Append(acc, KeyRelease(body[2][3])))
        ELSE IF Len(body[2]) = 2 /\ body[2][1] = "[events]" /\ Len(body) >= 4
        THEN LET pos == <<body[3][3], body[4][3]>>
             IN  IF body[2][2] = "mouse_move"
                 THEN ParseEvents(SubSeq(body, 5, Len(body)), Append(acc, MouseMove(pos)))
                 ELSE IF Len(body) < 5 THEN Err("invalid events")
                 ELSE IF body[2][2] = "mouse_press"
                 THEN ParseEvents(SubSeq(body, 6, Len(body)),
                                  Append(acc, MousePress(body[5][3], pos)))
                 ELSE ParseEvents(SubSeq(body, 6, Len(body)),
                                  Append(acc, MouseRelease(body[5][3], pos)))
        ELSE Err("invalid events")

\* toml::from_str::<Macro>(&contents)
from_str(lines) ==
    LET d == ParseDescription(lines)
        evs == ParseEvents(d.value.rest, <<>>)
    IN  IF ~d.ok THEN d
        ELSE IF ~evs.ok THEN evs
        ELSE Ok(Macro(d.value.text, evs.value))

\* macors.rs 125-134: the macro is serialized, tidied and written
Save ==
    /\ pc = "save"
    /\ contents' = TidyMarkers(to_string(store_macro[1]))
    /\ pc' = "saved"
    /\ UNCHANGED <<recVars, file, parseVars, findVars, runVars, showVars,
                   store_macro, loaded, editVars, overwrite, lsVars>>

\* macors.rs 165-176: the file is read and parsed
Load ==
    /\ pc = "saved"
    /\ loaded' = Some(from_str(contents))
    /\ pc' = "done"
    /\ UNCHANGED <<recVars, file, parseVars, findVars, runVars, showVars,
                   store_macro, contents, editVars, overwrite, lsVars>>

\* the descriptions and events of the macros written
DescriptionTexts == {"note", "[[events]]", ""}
Descriptions == UNION {[1..n -> DescriptionTexts] : n \in 1..MaxDescLines}
StoreAlphabet ==
    {Wait(100), KeyPress("KeyA"), KeyRelease("KeyA"),
     MousePress("Left", <<5, 5>>), MouseMove(<<0, 0>>)}
StoreMacros ==
    {Macro(d, evs) : d \in Descriptions,
                     evs \in UNION {[1..n -> StoreAlphabet] : n \in 0..MaxStoreLen}}

InitStore ==
    /\ RecIdle
    /\ ParseIdle
    /\ FindIdle
    /\ RunIdle
    /\ file = NoFile
    /\ pc = "save"
    /\ store_macro \in {Some(m) : m \in StoreMacros}
    /\ contents = <<>>
    /\ loaded = None
    /\ ShowIdle
    /\ EditIdle
    /\ overwrite = FALSE /\ LsIdle

NextStore ==
    \/ Save
    \/ Load

SpecStore == InitStore /\ [][NextStore]_vars

(***************************************************************************)
(* The Show command (main.rs 238-304), try_collapse_click and stat_label:  *)
(* SpecShow.  Event indices are 0-based, as in the source.                 *)
(***************************************************************************)
S_click == <<"c", "l", "i", "c", "k">>

\* the byte of an ASCII character of a label
AsciiCode(c) ==
    IF c = "." THEN 46
    ELSE IF c = "_" THEN 95
    ELSE IF \E i \in 1..10 : DigitChars[i] = c
    THEN 47 + (CHOOSE i \in 1..10 : DigitChars[i] = c)
    ELSE IF \E i \in 1..26 : UpperCase[i] = c
    THEN 64 + (CHOOSE i \in 1..26 : UpperCase[i] = c)
    ELSE 96 + (CHOOSE i \in 1..26 : LowerCase[i] = c)

\* String::cmp: byte-wise lexicographic order
RECURSIVE StrLess(_, _)
StrLess(a, b) ==
    IF b = <<>> THEN FALSE
    ELSE IF a = <<>> THEN TRUE
    ELSE IF Head(a) = Head(b) THEN StrLess(Tail(a), Tail(b))
    ELSE AsciiCode(Head(a)) < AsciiCode(Head(b))

\* main::describe_event, as the words and numbers of the line
describe_event(ev) ==
    CASE ev.type = "wait" -> [what |-> "wait", ms |-> ev.ms]
      [] ev.type \in {"mouse_press", "mouse_release"} ->
            [what |-> ev.type, name |-> DebugName(ev.button), x |-> ev.x, y |-> ev.y]
      [] ev.type = "mouse_move" -> [what |-> "mouse_move", x |-> ev.x, y |-> ev.y]
      [] ev.type \in {"key_press", "key_release"} ->
            [what |-> ev.type, name |-> DebugName(ev.key)]

\* main::stat_label
stat_label(ev) ==
    CASE ev.type = "wait" -> S_wait
      [] ev.type = "mouse_move" -> S_mouse_move
      [] ev.type = "mouse_press" -> S_mouse_press \o <<".">> \o DebugName(ev.button)
      [] ev.type = "mouse_release" -> S_mouse_release \o <<".">> \o DebugName(ev.button)
      [] ev.type = "key_press" -> S_key_press \o <<".">> \o DebugName(ev.key)
      [] ev.type = "key_release" -> S_key_release \o <<".">> \o DebugName(ev.key)

\* mutant of is_same_click: the coordinates are not compared
is_same_click_ButtonOnly(a, b) == a.button = b.button

\* main::is_same_click
is_same_click(a, b) == a.button = b.button /\ a.x = b.x /\ a.y = b.y

\* mutant of ClickCollapse: the index reported is the one before the release
ClickCollapse_BeforeRelease(release_idx, waits_consumed, wait_ms_total, press) ==
    [release_idx |-> release_idx - 1, waits_consumed |-> waits_consumed,
     wait_ms_total |-> wait_ms_total, button |-> press.button,
     x |-> press.x, y |-> press.y]

\* main::ClickCollapse
ClickCollapse(release_idx, waits_consumed, wait_ms_total, press) ==
    [release_idx |-> release_idx, waits_consumed |-> waits_consumed,
     wait_ms_total |-> wait_ms_total, button |-> press.button,
     x |-> press.x, y |-> press.y]

\* mutant of CollapseScan: the Waits passed over are not counted
RECURSIVE CollapseScan_NoCount(_, _, _, _, _)
CollapseScan_NoCount(evs, press, idx, waits_consumed, wait_ms_total) ==
    IF idx >= Len(evs) THEN None
    ELSE LET ev == evs[idx + 1]
         IN  IF ev.type = "wait"
             THEN CollapseScan_NoCount(evs, press, idx + 1, waits_consumed,
                                       wait_ms_total + ev.ms)
             ELSE IF ev.type = "mouse_release" /\ is_same_click(press, ev)
             THEN Some(ClickCollapse(idx, waits_consumed, wait_ms_total, press))
             ELSE None

\* the while loop of try_collapse_click
RECURSIVE CollapseScan(_, _, _, _, _)
CollapseScan(evs, press, idx, waits_consumed, wait_ms_total) ==
    IF idx >= Len(evs) THEN None
    ELSE LET ev == evs[idx + 1]
         IN  IF ev.type = "wait"
             THEN CollapseScan(evs, press, idx + 1, waits_consumed + 1,
                               wait_ms_total + ev.ms)
             ELSE IF ev.type = "mouse_release" /\ is_same_click(press, ev)
             THEN Some(ClickCollapse(idx, waits_consumed, wait_ms_total, press))
             ELSE None

\* main::try_collapse_click
try_collapse_click(evs, start_idx) ==
    IF evs[start_idx + 1].type # "mouse_press" THEN None
    ELSE CollapseScan(evs, evs[start_idx + 1], start_idx + 1, 0, 0)

\* mutant of Bump: the count is set, not added to
Bump_Overwrites(m, label, n) ==
    [l \in DOMAIN m \cup {label} |-> IF l = label THEN n ELSE m[l]]

\* *stats.entry(label).or_insert(0) += n
Bump(m, label, n) ==
    IF label \in DOMAIN m
    THEN [m EXCEPT ![label] = @ + n]
    ELSE [l \in DOMAIN m \cup {label} |-> IF l = label THEN n ELSE m[l]]

\* entries.sort_by(|a, b| a.0.cmp(b.0)): the labels in increasing order
RECURSIVE SortedLabels(_)
SortedLabels(labels) ==
    IF labels = {} THEN <<>>
    ELSE LET least == CHOOSE l \in labels : \A o \in labels \ {l} : StrLess(l, o)
         IN  <<least>> \o SortedLabels(labels \ {least})

\* main.rs 238-259: the macro is read and parsed
ShowStart ==
    /\ pc = "show"
    /\ IF ~file.exists
       THEN /\ report' = Append(report, "not found")
            /\ pc' = "done"
       ELSE IF ~ParseMacroFile(file).ok
       THEN /\ report' = Append(report, ParseMacroFile(file).err)
            /\ pc' = "done"
       ELSE /\ pc' = "show_loop"
            /\ UNCHANGED report
    /\ UNCHANGED <<recVars, file, parseVars, findVars, repeat, action, action_event,
                   rep, play_events, play_idx, issued, showVars, storeVars,
                   editVars, overwrite, lsVars>>

\* main.rs 260-295: one iteration of the display loop
ShowStep ==
    /\ pc = "show_loop"
    /\ show_idx < Len(file.events)
    /\ LET ev == file.events[show_idx + 1]
           collapse == try_collapse_click(file.events, show_idx)
       IN  IF ~all /\ ev.type = "wait"
           THEN /\ show_idx' = show_idx + 1
                /\ UNCHANGED <<shown, stats, printed, collapse_log>>
           ELSE IF ev.type = "mouse_press" /\ collapse # None
           THEN LET c == collapse[1]
                    msg == [what |-> "click", x |-> c.x, y |-> c.y,
                            plus_wait |-> IF all /\ c.wait_ms_total > 0
                                          THEN Some(c.wait_ms_total) ELSE None]
                    counted == IF stat /\ all /\ c.waits_consumed > 0
                               THEN Bump(stats, S_wait, c.waits_consumed)
                               ELSE stats
                IN  /\ shown' = shown + 1
                    /\ printed' = IF ~stat
                                  THEN Append(printed, [n |-> shown + 1, text |-> msg])
                                  ELSE printed
                    /\ stats' = Bump(counted, S_click \o <<".">> \o DebugName(c.button), 1)
                    /\ show_idx' = c.release_idx + 1
                    /\ collapse_log' = Append(collapse_log,
                                              [start_idx |-> show_idx, result |-> collapse])
           ELSE /\ shown' = shown + 1
                /\ printed' = IF ~stat
                              THEN Append(printed, [n |-> shown + 1,
                                                    text |-> describe_event(ev)])
                              ELSE printed
                /\ stats' = Bump(stats, stat_label(ev), 1)
                /\ show_idx' = show_idx + 1
                /\ collapse_log' = IF ev.type = "mouse_press"
                                   THEN Append(collapse_log,
                                               [start_idx |-> show_idx, result |-> collapse])
                                   ELSE collapse_log
    /\ UNCHANGED <<recVars, file, pc, parseVars, findVars, runVars, stat, all,
                   storeVars, editVars, overwrite, lsVars>>

\* main.rs 297-303: the statistics are printed, sorted by label
ShowStats ==
    /\ pc = "show_loop"
    /\ show_idx >= Len(file.events)
    /\ pc' = "done"
    /\ printed' = IF stat
                  THEN LET labels == SortedLabels(DOMAIN stats)
                       IN  printed \o [i \in 1..Len(labels) |->
                                          [label |-> labels[i], count |-> stats[labels[i]]]]
                  ELSE printed
    /\ UNCHANGED <<recVars, file, parseVars, findVars, runVars, stat, all, show_idx,
                   shown, stats, collapse_log, storeVars, editVars, overwrite, lsVars>>

\* the events of the macros shown
ShowKeys == {"KeyA", "KeyB"}
ShowAlphabet ==
    {Wait(100), MouseMove(<<0, 0>>),
     MousePress("Left", <<0, 0>>), MouseRelease("Left", <<0, 0>>),
     MouseRelease("Left", <<5, 5>>), MouseRelease("Right", <<0, 0>>)}
    \cup {KeyPress(k) : k \in ShowKeys}
ShowFiles ==
    {NoFile, CorruptFile} \cup
    {MacroFile(evs) : evs \in UNION {[1..n -> ShowAlphabet] : n \in 0..MaxShowLen}}

InitShow ==
    /\ RecIdle
    /\ ParseIdle
    /\ FindIdle
    /\ RunIdle
    /\ file \in ShowFiles
    /\ pc = "show"
    /\ stat \in BOOLEAN
    /\ all \in BOOLEAN
    /\ show_idx = 0
    /\ shown = 0
    /\ stats = EmptyStats
    /\ printed = <<>>
    /\ collapse_log = <<>>
    /\ StoreIdle
    /\ EditIdle
    /\ overwrite = FALSE /\ LsIdle

NextShow ==
    \/ ShowStart
    \/ ShowStep
    \/ ShowStats

SpecShow == InitShow /\ [][NextShow]_vars

(***************************************************************************)
(* The Edit and Rm commands (main.rs 229-237 and 305-385) and the four     *)
(* commands that read a stored macro together: SpecCmd.                    *)
(***************************************************************************)
\* the text of a macro file written by a capture session
FileDescription == <<"note">>
FileText(f) == TidyMarkers(to_string(Macro(FileDescription, f.events)))

\* line.trim() == "[[events]]"
IsMarkerLine(line) == Len(line) = 1 /\ line[1] = "[[events]]"

\* the loop of event_start_line from 0-based line line_no, idx markers seen
RECURSIVE StartLineScan(_, _, _, _)
StartLineScan(lines, zero_based_index, line_no, seen) ==
    IF line_no >= Len(lines) THEN None
    ELSE IF IsMarkerLine(lines[line_no + 1])
         THEN IF seen = zero_based_index
              THEN Some(line_no + 1)
              ELSE StartLineScan(lines, zero_based_index, line_no + 1, seen + 1)
         ELSE StartLineScan(lines, zero_based_index, line_no + 1, seen)

\* main::event_start_line: the 1-based line of the marker of an event
event_start_line(lines, zero_based_index) ==
    StartLineScan(lines, zero_based_index, 0, 0)

\* process::Command::new(editor).arg(editor_target).status()
EditorStatuses == {"success", "exited with status", "failed to launch"}

\* mutant of selected_action: the --action flag is not looked at
selected_action_PositionalOnly(flag, positional) == positional

\* action_flag.clone().or(action.clone())
selected_action(flag, positional) == IF flag # None THEN flag ELSE positional

\* main.rs 305-385: the whole Edit command
Edit ==
    /\ pc = "edit"
    /\ pc' = "done"
    /\ LET raw_action == selected_action(action_flag, action)
           mcro == ParseMacroFile(file)
           sel == parse_action(raw_action[1])
           op_idx == find_event_index(mcro.value, sel.value)
           op_line == event_start_line(FileText(file), op_idx[1])
           Fails(msg) == /\ report' = Append(report, msg)
                         /\ UNCHANGED <<file, launched>>
           Launch(target_line) ==
               /\ launched' = Append(launched, [editor |-> editor_env[1],
                                                line |-> target_line])
               /\ \E status \in EditorStatuses :
                      /\ report' = IF status = "success" THEN report
                                    ELSE Append(report, status)
                      /\ IF status = "failed to launch"
                         THEN file' = file
                         ELSE file' \in {file, CorruptFile}
       IN  IF editor_env = None THEN Fails("$EDITOR is not set")
           ELSE IF ~file.exists THEN Fails("not found")
           ELSE IF raw_action = None THEN Launch(None)
           ELSE IF ~mcro.ok THEN Fails(mcro.err)
           ELSE IF ~sel.ok THEN Fails(sel.err)
           ELSE IF OrdinalRejected(sel.value.ordinal)
           THEN Fails("Ordinal must be 1 or greater")
           ELSE IF op_idx = None THEN Fails("No matching event found")
           ELSE IF op_line = None THEN Fails("Could not locate event position")
           ELSE Launch(op_line)
    /\ UNCHANGED <<recVars, parseVars, findVars, repeat, action, action_event, rep, play_events,
                   play_idx, issued, showVars, storeVars,
                   editor_env, action_flag, overwrite, lsVars>>

\* main.rs 229-237: the whole Rm command
Rm ==
    /\ pc = "rm"
    /\ pc' = "done"
    /\ IF ~file.exists
       THEN /\ report' = Append(report, "not found")
            /\ UNCHANGED file
       ELSE /\ file' = NoFile
            /\ UNCHANGED report
    /\ UNCHANGED <<recVars, parseVars, findVars, repeat, action, action_event, rep,
                   play_events, play_idx, issued, cmdVars>>

\* the action selectors given to the Edit command
EditActions ==
    {None,
     Some(<<"k", "e", "y", "_", "p", "r", "e", "s", "s", ":", "1">>),
     Some(<<"w", "a", "i", "t", ":", "2">>),
     Some(<<"k", "e", "y", "_", "p", "r", "e", "s", "s", ":", "0">>),
     Some(<<"k", "e", "y", "p", "r", "e", "s", "s", ":", "1">>)}
EditActionFlags ==
    {None,
     Some(<<"m", "o", "u", "s", "e", "_", "p", "r", "e", "s", "s", ".", "l", "e", "f", "t", ":", "1">>),
     Some(<<"w", "a", "i", "t", ":", "1", ":", "2">>)}

InitCmd ==
    \/ InitRun
    \/ /\ RecIdle /\ ParseIdle /\ FindIdle /\ RunIdle
       /\ StoreIdle /\ EditIdle /\ overwrite = FALSE /\ LsIdle
       /\ file \in RunFiles
       /\ pc = "show"
       /\ stat \in BOOLEAN
       /\ all \in BOOLEAN
       /\ show_idx = 0
       /\ shown = 0
       /\ stats = EmptyStats
       /\ printed = <<>>
       /\ collapse_log = <<>>
    \/ /\ RecIdle /\ ParseIdle /\ FindIdle
       /\ ShowIdle /\ StoreIdle /\ overwrite = FALSE /\ LsIdle
       /\ file \in RunFiles
       /\ pc = "edit"
       /\ editor_env \in {None, Some("vi")}
       /\ action \in EditActions
       /\ action_flag \in EditActionFlags
       /\ launched = <<>>
       /\ repeat = 0
       /\ action_event = None
       /\ rep = 0
       /\ play_events = <<>>
       /\ play_idx = 0
       /\ issued = <<>>
       /\ report = <<>>
    \/ /\ RecIdle /\ ParseIdle /\ FindIdle /\ RunIdle /\ CmdIdle
       /\ file \in RunFiles
       /\ pc = "rm"

NextCmd ==
    \/ NextRun
    \/ NextShow
    \/ Edit
    \/ Rm

SpecCmd == InitCmd /\ [][NextCmd]_vars

(***************************************************************************)
Last(s) == s[Len(s)]
Front(s) == SubSeq(s, 1, Len(s) - 1)

\* mutant of EndsWith: only the last stop key is compared
EndsWith_LastKeyOnly(s, suffix) ==
    suffix # <<>> => (s # <<>> /\ Last(s) = Last(suffix))

\* slice::ends_with
EndsWith(s, suffix) ==
    /\ Len(suffix) <= Len(s)
    /\ SubSeq(s, Len(s) - Len(suffix) + 1, Len(s)) = suffix

\* milliseconds between the deliveries of hook events n-1 and n
Delay(n) == ((n * n) % 7) + 1

\* mutant of NextRecentKeys: a mouse move leaves the window alone
NextRecentKeys_MoveKeeps(e, rk) ==
    CASE e.type = "KeyPress" -> Append(rk, e.key)
      [] e.type \in {"ButtonPress", "ButtonRelease"} -> <<>>
      [] OTHER -> rk

\* the trailing-keys window after the match on event.event_type
NextRecentKeys(e, rk) ==
    CASE e.type = "KeyPress" -> Append(rk, e.key)
      [] e.type \in {"ButtonPress", "ButtonRelease", "MouseMove"} -> <<>>
      [] OTHER -> rk

\* the button-down flag after the match
NextMousePressed(e, mp) ==
    CASE e.type = "ButtonPress" -> TRUE
      [] e.type = "ButtonRelease" -> FALSE
      [] OTHER -> mp

\* mutant of NextMousePos: the position queried at the start is kept
NextMousePos_Keeps(e, pos) == pos

\* the tracked pointer position after the match
NextMousePos(e, pos) ==
    IF e.type = "MouseMove" THEN <<e.x, e.y>> ELSE pos

\* mutant of OpEv: a wheel event is recorded as a move to the tracked position
OpEv_WheelAsMove(c, e, pos, mp) ==
    CASE e.type = "KeyPress" -> Some(KeyPress(e.key))
      [] e.type = "KeyRelease" -> Some(KeyRelease(e.key))
      [] e.type = "ButtonPress" -> Some(MousePress(e.button, pos))
      [] e.type = "ButtonRelease" -> Some(MouseRelease(e.button, pos))
      [] e.type = "MouseMove" ->
            IF c.record_non_drag_mouse_moves \/ mp
            THEN Some(MouseMove(<<e.x, e.y>>))
            ELSE None
      [] OTHER -> Some(MouseMove(pos))

\* op_ev: the event to record, if any
OpEv(c, e, pos, mp) ==
    CASE e.type = "KeyPress" -> Some(KeyPress(e.key))
      [] e.type = "KeyRelease" -> Some(KeyRelease(e.key))
      [] e.type = "ButtonPress" -> Some(MousePress(e.button, pos))
      [] e.type = "ButtonRelease" -> Some(MouseRelease(e.button, pos))
      [] e.type = "MouseMove" ->
            IF c.record_non_drag_mouse_moves \/ mp
            THEN Some(MouseMove(<<e.x, e.y>>))
            ELSE None
      [] OTHER -> None

\* mutant of SynthWait: the strategy is ignored and the elapsed-time rule
\* is applied to every strategy
SynthWait_IgnoresStrategy(c, last, t) ==
    IF last # None THEN <<Wait(t - last[1])>> ELSE <<>>

\* the Wait events pushed before a recorded event
SynthWait(c, last, t) ==
    IF c.wait_strategy.kind = "Actual"
    THEN IF last # None THEN <<Wait(t - last[1])>> ELSE <<>>
    ELSE <<Wait(c.wait_strategy.ms)>>

\* mutant of NextLastEventTime: the timestamp taken is not put back
NextLastEventTime_KeepsFirst(c, last, t) ==
    IF c.wait_strategy.kind = "Actual" /\ last = None THEN Some(t) ELSE last

\* last_event_time after a recorded event
NextLastEventTime(c, last, t) ==
    IF c.wait_strategy.kind = "Actual" THEN Some(t) ELSE last

\* mutant of TrimStopKeys: the walk breaks without popping the first stop press
RECURSIVE TrimStopKeys_KeepsFirstPress(_, _)
TrimStopKeys_KeepsFirstPress(evs, to_pop) ==
    IF evs = <<>> THEN <<>>
    ELSE LET ev == Last(evs)
             hit == /\ ev.type = "key_press"
                    /\ to_pop # <<>>
                    /\ Last(to_pop) = ev.key
         IN  IF hit /\ Front(to_pop) = <<>>
             THEN evs
             ELSE TrimStopKeys_KeepsFirstPress(Front(evs),
                      IF hit THEN Front(to_pop) ELSE to_pop)

\* mutant of TrimStopKeys: the event before the first stop press is popped too
RECURSIVE TrimStopKeys_PopsWait(_, _)
TrimStopKeys_PopsWait(evs, to_pop) ==
    IF evs = <<>> THEN <<>>
    ELSE LET ev == Last(evs)
             hit == /\ ev.type = "key_press"
                    /\ to_pop # <<>>
                    /\ Last(to_pop) = ev.key
         IN  IF hit /\ Front(to_pop) = <<>>
             THEN IF Front(evs) = <<>> THEN <<>> ELSE Front(Front(evs))
             ELSE TrimStopKeys_PopsWait(Front(evs),
                      IF hit THEN Front(to_pop) ELSE to_pop)

\* the reverse walk that pops the stop keys off a copy of the accumulator
RECURSIVE TrimStopKeys(_, _)
TrimStopKeys(evs, to_pop) ==
    IF evs = <<>> THEN <<>>
    ELSE LET ev == Last(evs)
             hit == /\ ev.type = "key_press"
                    /\ to_pop # <<>>
                    /\ Last(to_pop) = ev.key
         IN  IF hit /\ Front(to_pop) = <<>>
             THEN Front(evs)
             ELSE TrimStopKeys(Front(evs), IF hit THEN Front(to_pop) ELSE to_pop)

\* `File::create("/dev/null").map(|_f| ... panic!(...))`: the closure that
\* panics runs only if the file was created
Panics(created) == created

\* the whole callback, for hook event e delivered at time t
Callback(e, t) ==
    LET op_ev == OpEv(cfg, e, mouse_pos, mouse_pressed)
        rk == NextRecentKeys(e, recent_keys)
        evs == IF op_ev # None
               THEN events \o SynthWait(cfg, last_event_time, t) \o op_ev
               ELSE events
    IN  /\ now' = t
        /\ delivered' = Append(delivered, [ev |-> e, t |-> t, rec |-> op_ev # None])
        /\ recent_keys' = rk
        /\ mouse_pressed' = NextMousePressed(e, mouse_pressed)
        /\ mouse_pos' = NextMousePos(e, mouse_pos)
        /\ last_event_time' = IF op_ev # None
                              THEN NextLastEventTime(cfg, last_event_time, t)
                              ELSE last_event_time
        /\ events' = evs
        /\ IF EndsWith(rk, cfg.stop_keystrokes)
           THEN /\ file' = MacroFile(TrimStopKeys(evs, cfg.stop_keystrokes))
                /\ writes' = writes + 1
                /\ pc' = IF Panics(dev_null) THEN "stopped" ELSE pc
           ELSE UNCHANGED <<file, pc, writes>>
        /\ UNCHANGED <<cfg, dev_null, parseVars, findVars, runVars, cmdVars>>

\* rdev::listen calls the callback for each hook event until the callback
\* panics at the end of the recording
Listening == pc = "listening" /\ Len(delivered) < MaxHook
Deliver(e) == Callback(e, now + Delay(Len(delivered) + 1))

OnKeyPress == Listening /\ \E k \in Keys : Deliver(HookKeyPress(k))
OnKeyRelease == Listening /\ \E k \in Keys : Deliver(HookKeyRelease(k))
OnButtonPress == Listening /\ \E b \in Buttons : Deliver(HookButtonPress(b))
OnButtonRelease == Listening /\ \E b \in Buttons : Deliver(HookButtonRelease(b))
OnMouseMove == Listening /\ \E p \in Positions : Deliver(HookMouseMove(p))
OnWheel == Listening /\ Deliver(HookWheel)

\* the state when rdev::listen is entered, macors.rs 16-40
Init ==
    /\ cfg \in Configs
    /\ events = <<Wait(cfg.recording_initial_wait_ms)>>
    /\ mouse_pos = StartPos
    /\ mouse_pressed = FALSE
    /\ recent_keys = <<>>
    /\ last_event_time = None
    /\ file = NoFile
    /\ pc = "listening"
    /\ now = 0
    /\ delivered = <<>>
    /\ dev_null = TRUE
    /\ writes = 0
    /\ ParseIdle
    /\ FindIdle
    /\ RunIdle
    /\ CmdIdle

Next ==
    \/ OnKeyPress
    \/ OnKeyRelease
    \/ OnButtonPress
    \/ OnButtonRelease
    \/ OnMouseMove
    \/ OnWheel

Spec == Init /\ [][Next]_vars

(***************************************************************************)
(* The Ls command (main.rs 193-228): SpecLs.                               *)
(***************************************************************************)
\* an entry of the macros directory: a macro file <stem>.toml with its
\* description (a sequence of lines), a file with an extension that
\* toml::from_str rejects, a file that is not valid UTF-8, a file without
\* an extension, or a directory
DirEntry(stem, kind, description) ==
    [stem |-> stem, kind |-> kind, description |-> description]

\* `path.is_file() && path.extension().is_some()`
IsListed(e) == e.kind \in {"macro", "corrupt", "unreadable"}

\* main.rs 196-226: one iteration of the loop over fs::read_dir
LsStep ==
    /\ pc = "ls"
    /\ dir_idx < Len(dir)
    /\ LET e == dir[dir_idx + 1]
       IN  IF ~IsListed(e)
           THEN /\ dir_idx' = dir_idx + 1
                /\ UNCHANGED <<pc, listed, report>>
           ELSE IF e.kind = "unreadable"
           THEN /\ pc' = "panicked"
                /\ UNCHANGED <<dir_idx, listed, report>>
           ELSE IF e.kind = "corrupt"
           THEN /\ report' = Append(report, "Failed to deserialize macro file")
                /\ pc' = "done"
                /\ UNCHANGED <<dir_idx, listed>>
           ELSE /\ listed' = Append(listed, [name |-> e.stem,
                                             description |-> e.description])
                /\ dir_idx' = dir_idx + 1
                /\ UNCHANGED <<pc, report>>
    /\ UNCHANGED <<recVars, file, parseVars, findVars, repeat, action, action_event,
                   rep, play_events, play_idx, issued, showVars, storeVars, editVars,
                   overwrite, dir>>

\* main.rs 227: read_dir is exhausted
LsDone ==
    /\ pc = "ls"
    /\ dir_idx >= Len(dir)
    /\ pc' = "done"
    /\ UNCHANGED <<recVars, file, parseVars, findVars, runVars, cmdVars>>

\* the directories listed: the stems are distinct, the order is the one
\* read_dir happens to yield
DirStems == {"a", "b", "c"}
DirEntries ==
    {DirEntry(n, "macro", d) : n \in DirStems, d \in {<<>>, <<"note">>}}
    \cup {DirEntry(n, k, <<>>) : n \in DirStems,
                                  k \in {"corrupt", "unreadable", "plain", "dir"}}
Directories ==
    {d \in UNION {[1..n -> DirEntries] : n \in 0..MaxDir} :
        \A i, j \in 1..Len(d) : d[i].stem = d[j].stem => i = j}

InitLs ==
    /\ RecIdle
    /\ file = NoFile
    /\ pc = "ls"
    /\ ParseIdle
    /\ FindIdle
    /\ RunIdle
    /\ ShowIdle
    /\ StoreIdle
    /\ EditIdle
    /\ overwrite = FALSE
    /\ dir \in Directories
    /\ dir_idx = 0
    /\ listed = <<>>

NextLs == LsStep \/ LsDone

SpecLs == InitLs /\ [][NextLs]_vars

(***************************************************************************)
(* The Rec command (main.rs 89-122) around the capture session: SpecRec.   *)
(***************************************************************************)
\* main.rs 94-121 and macors.rs 16-40: the check of the macro file, then
\* record() up to rdev::listen
RecStart ==
    /\ pc = "rec"
    /\ IF ~overwrite /\ file.exists
       THEN /\ report' = Append(report, "already exists")
            /\ pc' = "done"
            /\ UNCHANGED events
       ELSE /\ events' = <<Wait(cfg.recording_initial_wait_ms)>>
            /\ pc' = "listening"
            /\ UNCHANGED report
    /\ UNCHANGED <<cfg, mouse_pos, mouse_pressed, recent_keys, last_event_time, now,
                   delivered, dev_null, writes, file, parseVars, findVars, repeat, action, action_event,
                   rep, play_events, play_idx, issued, cmdVars>>

\* the macros directory is shared: while the session listens, another
\* process writes a macro file of the same name
OtherProcessWrites ==
    /\ pc = "listening"
    /\ ~file.exists
    /\ file' = MacroFile(<<Wait(100), KeyPress("KeyA")>>)
    /\ UNCHANGED <<recVars, pc, parseVars, findVars, runVars, cmdVars>>

\* the configurations of the sessions started by the Rec command
RecConfigs ==
    {c \in Configs : /\ c.stop_keystrokes = <<"Escape", "KeyA">>
                     /\ c.wait_strategy = ConstantMS(100)}

InitRec ==
    /\ cfg \in RecConfigs
    /\ events = <<>>
    /\ mouse_pos = StartPos
    /\ mouse_pressed = FALSE
    /\ recent_keys = <<>>
    /\ last_event_time = None
    /\ now = 0
    /\ delivered = <<>>
    /\ dev_null = TRUE
    /\ writes = 0
    /\ file \in {NoFile, MacroFile(<<Wait(100), KeyPress("KeyA")>>)}
    /\ pc = "rec"
    /\ ParseIdle
    /\ FindIdle
    /\ RunIdle
    /\ ShowIdle
    /\ StoreIdle
    /\ EditIdle
    /\ overwrite \in BOOLEAN /\ LsIdle

NextRec ==
    \/ RecStart
    \/ OtherProcessWrites
    \/ Next

SpecRec == InitRec /\ [][NextRec]_vars

\* the capture session on any system: File::create("/dev/null") succeeds on
\* some and fails on others (SpecSession)
InitSession ==
    /\ cfg \in RecConfigs
    /\ events = <<Wait(cfg.recording_initial_wait_ms)>>
    /\ mouse_pos = StartPos
    /\ mouse_pressed = FALSE
    /\ recent_keys = <<>>
    /\ last_event_time = None
    /\ file = NoFile
    /\ pc = "listening"
    /\ now = 0
    /\ delivered = <<>>
    /\ dev_null \in BOOLEAN
    /\ writes = 0
    /\ ParseIdle
    /\ FindIdle
    /\ RunIdle
    /\ CmdIdle

SpecSession == InitSession /\ [][Next]_vars

(***************************************************************************)
(* Properties of the capture session.  They are stated over the hook's     *)
(* delivery log, with their own notions of suffix and of held buttons.     *)
(***************************************************************************)
\* suf is a contiguous, ordered suffix of s
IsSuffix(suf, s) ==
    /\ Len(suf) <= Len(s)
    /\ \A k \in 1..Len(suf) : s[Len(s) - Len(suf) + k] = suf[k]

\* the positions of the key presses in an event list, and the first of its last n
KeyPressIdx(evs) == {i \in 1..Len(evs) : evs[i].type = "key_press"}
NthLastKeyPress(evs, n) ==
    CHOOSE p \in KeyPressIdx(evs) :
        Cardinality({q \in KeyPressIdx(evs) : q >= p}) = n

\* the deliveries that were recorded, in delivery order
RECURSIVE Recorded(_)
Recorded(h) ==
    IF h = <<>> THEN <<>>
    ELSE IF Last(h).rec THEN Append(Recorded(Front(h)), Last(h))
         ELSE Recorded(Front(h))

\* a recorded event is the delivered hook event, typed
Corresponds(ev, e) ==
    CASE e.type = "KeyPress" -> ev.type = "key_press" /\ ev.key = e.key
      [] e.type = "KeyRelease" -> ev.type = "key_release" /\ ev.key = e.key
      [] e.type = "ButtonPress" -> ev.type = "mouse_press" /\ ev.button = e.button
      [] e.type = "ButtonRelease" -> ev.type = "mouse_release" /\ ev.button = e.button
      [] e.type = "MouseMove" -> ev.type = "mouse_move" /\ ev.x = e.x /\ ev.y = e.y
      [] OTHER -> FALSE

\* the buttons pressed and not yet released in a delivery log
RECURSIVE Held(_)
Held(h) ==
    IF h = <<>> THEN {}
    ELSE LET e == Last(h).ev
         IN  CASE e.type = "ButtonPress" -> Held(Front(h)) \cup {e.button}
               [] e.type = "ButtonRelease" -> Held(Front(h)) \ {e.button}
               [] OTHER -> Held(Front(h))

\* every button release in the log releases a button that was held
RECURSIVE ReleasesFollowPresses(_)
ReleasesFollowPresses(h) ==
    \/ h = <<>>
    \/ /\ ReleasesFollowPresses(Front(h))
       /\ Last(h).ev.type = "ButtonRelease" => Last(h).ev.button \in Held(Front(h))
       /\ Last(h).ev.type = "ButtonPress" => Last(h).ev.button \notin Held(Front(h))

\* the keys pressed since the last delivery whose type is in resetTypes
RECURSIVE KeysPressedSince(_, _)
KeysPressedSince(h, resetTypes) ==
    IF h = <<>> THEN <<>>
    ELSE LET e == Last(h).ev
         IN  IF e.type \in resetTypes THEN <<>>
             ELSE IF e.type = "KeyPress"
                  THEN Append(KeysPressedSince(Front(h), resetTypes), e.key)
                  ELSE KeysPressedSince(Front(h), resetTypes)

\* C1: when a session with a non-empty stop sequence ends, the persisted
\* macro is a prefix of the recording that keeps every key press made
\* before the terminating presses (and all that precedes it) and ends before
\* the first terminating press: none of the terminating presses, and no
\* release or wait recorded among them, is persisted.
C1_StopTrim ==
    (pc = "stopped" /\ cfg.stop_keystrokes # <<>>) =>
        LET n == Len(cfg.stop_keystrokes)
            p == NthLastKeyPress(events, n)
            kept == file.events
        IN  /\ Cardinality(KeyPressIdx(events)) >= n
            /\ \A k \in 1..n :
                   events[NthLastKeyPress(events, n - k + 1)].key
                       = cfg.stop_keystrokes[k]
            /\ Len(kept) < p
            /\ kept = SubSeq(events, 1, Len(kept))
            /\ \A j \in KeyPressIdx(events) : j < p => j <= Len(kept)

\* C1 witness: Esc,Esc,Esc ends a session whose persisted macro ends with
\* KeyPress(A), waits recorded among the presses having been dropped
C1_Witness ==
    /\ pc = "stopped"
    /\ cfg.stop_keystrokes = <<"Escape", "Escape", "Escape">>
    /\ cfg.wait_strategy.kind = "ConstantMS"
    /\ Last(file.events).type = "wait"
    /\ Len(file.events) >= 3
    /\ file.events[Len(file.events) - 1] = KeyPress("KeyA")
    /\ Len(events) = Len(file.events) + 5

\* C2: under ConstantMS(ms) the accumulator is Wait(initial) followed by one
\* pair (Wait(ms), event) per recorded delivery, in delivery order.
C2_ConstantWaits ==
    cfg.wait_strategy.kind = "ConstantMS" =>
        LET r == Recorded(delivered)
        IN  /\ Len(events) = 1 + 2 * Len(r)
            /\ events[1] = Wait(cfg.recording_initial_wait_ms)
            /\ \A j \in 1..Len(r) :
                   /\ events[2 * j] = Wait(cfg.wait_strategy.ms)
                   /\ Corresponds(events[2 * j + 1], r[j].ev)
            /\ ( /\ cfg.wait_strategy.ms = 100
                 /\ cfg.recording_initial_wait_ms = 100
                 /\ Len(delivered) = 2
                 /\ delivered[1].ev = HookKeyPress("KeyA")
                 /\ delivered[2].ev = HookKeyRelease("KeyA") )
               => events = <<Wait(100), Wait(100), KeyPress("KeyA"),
                             Wait(100), KeyRelease("KeyA")>>

\* C2 witness: the example of the specification
C2_Witness ==
    /\ cfg.wait_strategy = ConstantMS(100)
    /\ Len(delivered) = 2
    /\ delivered[1].ev = HookKeyPress("KeyA")
    /\ delivered[2].ev = HookKeyRelease("KeyA")
    /\ Len(events) = 5

\* C3: under Actual the first recorded event has no Wait before it and every
\* later one is preceded by exactly one Wait, of the time elapsed since the
\* previous recorded delivery; dropped deliveries leave no trace.
C3_ActualWaits ==
    cfg.wait_strategy.kind = "Actual" =>
        LET r == Recorded(delivered)
        IN  /\ events[1] = Wait(cfg.recording_initial_wait_ms)
            /\ Len(events) = IF r = <<>> THEN 1 ELSE 2 * Len(r)
            /\ r # <<>> => Corresponds(events[2], r[1].ev)
            /\ \A j \in 2..Len(r) :
                   /\ events[2 * j - 1] = Wait(r[j].t - r[j - 1].t)
                   /\ Corresponds(events[2 * j], r[j].ev)
            /\ last_event_time = IF r = <<>> THEN None ELSE Some(Last(r).t)

\* C3 witness: two recorded events with a dropped delivery between them
C3_Witness ==
    /\ cfg.wait_strategy.kind = "Actual"
    /\ Len(delivered) = 3
    /\ delivered[1].rec /\ ~delivered[2].rec /\ delivered[3].rec
    /\ events[3] = Wait(delivered[3].t - delivered[1].t)
    /\ delivered[2].t > delivered[1].t

\* C4 (as claimed): whatever the configuration, the persisted macro starts
\* with Wait(recording_initial_wait_ms).
C4_InitialWaitPersisted ==
    pc = "stopped" =>
        /\ file.events # <<>>
        /\ file.events[1] = Wait(cfg.recording_initial_wait_ms)

\* C5 (as claimed): with a non-empty stop sequence the session ends exactly
\* at the first key press after which the keys pressed since the last mouse
\* event (button, move or wheel) end with the stop sequence.
C5_StopAtFirstMatch_AnyMouseEvent ==
    cfg.stop_keystrokes # <<>> =>
        \A i \in 1..Len(delivered) :
            ( /\ delivered[i].ev.type = "KeyPress"
              /\ IsSuffix(cfg.stop_keystrokes,
                          KeysPressedSince(SubSeq(delivered, 1, i),
                              {"ButtonPress", "ButtonRelease", "MouseMove", "Wheel"})) )
            <=> (i = Len(delivered) /\ pc = "stopped")

\* C5 (amended): with a non-empty stop sequence the session ends exactly at
\* the first key press after which the keys pressed since the last button
\* press, button release or mouse move end with the stop sequence; key
\* releases and wheel events between the stop presses do not break the
\* match, any other key press does.
C5_StopAtFirstMatch ==
    cfg.stop_keystrokes # <<>> =>
        \A i \in 1..Len(delivered) :
            ( /\ delivered[i].ev.type = "KeyPress"
              /\ IsSuffix(cfg.stop_keystrokes,
                          KeysPressedSince(SubSeq(delivered, 1, i),
                              {"ButtonPress", "ButtonRelease", "MouseMove"})) )
            <=> (i = Len(delivered) /\ pc = "stopped")

\* C5 witness: a session ended by Escape, KeyA with a key release and a
\* wheel event between the two presses
C5_Witness ==
    /\ pc = "stopped"
    /\ cfg.stop_keystrokes = <<"Escape", "KeyA">>
    /\ Len(delivered) = 4
    /\ delivered[1].ev = HookKeyPress("Escape")
    /\ delivered[2].ev = HookKeyRelease("Escape")
    /\ delivered[3].ev = HookWheel
    /\ delivered[4].ev = HookKeyPress("KeyA")

\* C6 (as claimed): a delivered MouseMove is recorded iff
\* record_non_drag_mouse_moves is set or some button is held (pressed and
\* not yet released); a move that is not recorded adds nothing to the
\* recording, still updates the tracked position and empties the window.
\* Stated for logs in which every release releases a held button.
C6_MoveRecordedIffHeld ==
    [][ ( /\ Len(delivered') = Len(delivered) + 1
          /\ Last(delivered').ev.type = "MouseMove"
          /\ ReleasesFollowPresses(delivered) )
        => LET e == Last(delivered').ev
           IN  /\ (events' # events) <=>
                      (cfg.record_non_drag_mouse_moves \/ Held(delivered) # {})
               /\ events' # events => Last(events') = MouseMove(<<e.x, e.y>>)
               /\ events' = events =>
                      /\ mouse_pos' = <<e.x, e.y>>
                      /\ recent_keys' = <<>>
                      /\ last_event_time' = last_event_time ]_vars

(***************************************************************************)
(* Properties of the action selector.                                      *)
(***************************************************************************)
\* two names are equal up to the case of their letters
SameNameAnyCase(a, b) ==
    /\ Len(a) = Len(b)
    /\ \A i \in 1..Len(a) :
          \/ a[i] = b[i]
          \/ \E j \in 1..26 : {a[i], b[i]} = {UpperCase[j], LowerCase[j]}

\* the detail a selector carries, if any
DetailOf(sel) == IF "detail" \in DOMAIN sel THEN sel.detail ELSE None

\* the button or key name of an event that has one
NamedBy(ev) ==
    IF ev.type \in {"mouse_press", "mouse_release"} THEN Some(DebugName(ev.button))
    ELSE IF ev.type \in {"key_press", "key_release"} THEN Some(DebugName(ev.key))
    ELSE None

\* ev is of the selector's kind and, when a detail is given, bears that name
MatchesKindAndDetail(ev, sel) ==
    /\ ev.type = sel.kind
    /\ DetailOf(sel) # None =>
           /\ NamedBy(ev) # None
           /\ SameNameAnyCase(DetailOf(sel)[1], NamedBy(ev)[1])

\* the kind name written by a kind token
KindNamed(k) ==
    CASE k = S_mouse_press -> "mouse_press"
      [] k = S_mouse_release -> "mouse_release"
      [] k = S_mouse_move -> "mouse_move"
      [] k = S_wait -> "wait"
      [] k = S_key_press -> "key_press"
      [] k = S_key_release -> "key_release"

\* C9: with ordinal n >= 1, resolution returns index i iff events[i] matches
\* the selector and exactly n-1 events before i match it, and it returns
\* unresolved iff fewer than n events match; mouse_press.Left:2 over the
\* example list resolves to index 2.
C9_FindEventIndex ==
    found # None =>
        LET r == found[1]
            n == selector.ordinal
            M == {i \in 0..(Len(sel_events) - 1) :
                     MatchesKindAndDetail(sel_events[i + 1], selector.selector)}
        IN  /\ \A i \in 0..(Len(sel_events) - 1) :
                   r = Some(i) <=>
                       (i \in M /\ Cardinality({j \in M : j < i}) = n - 1)
            /\ r = None <=> Cardinality(M) < n
            /\ ( /\ sel_events = <<MousePress("Left", <<0, 0>>),
                                   MouseRelease("Left", <<0, 0>>),
                                   MousePress("Left", <<5, 5>>),
                                   MouseRelease("Left", <<5, 5>>)>>
                 /\ selector = ActionSelector(SelMousePress(Some(<<"L", "e", "f", "t">>)), 2) )
               => r = Some(2)

\* C9 witness: the example of the specification, resolved to index 2
C9_Witness ==
    /\ found = Some(Some(2))
    /\ sel_events = <<MousePress("Left", <<0, 0>>), MouseRelease("Left", <<0, 0>>),
                      MousePress("Left", <<5, 5>>), MouseRelease("Left", <<5, 5>>)>>
    /\ selector = ActionSelector(SelMousePress(Some(<<"L", "e", "f", "t">>)), 2)

\* C10 (as claimed): for every well-formed address k[.d]:n, with k any of
\* the six kinds, parse_action returns a selector of kind k carrying the
\* detail d (none when none was written) and the ordinal n.
C10_ParseRecoversKindDetailOrdinal ==
    parsed # None =>
        \A k \in KindTokens, d \in {None} \cup {Some(t) : t \in DetailTexts},
           n \in 1..MaxOrdinal, suffix \in OrdinalSuffixes :
            raw = Address(k, d, n, suffix) =>
                /\ parsed[1].ok
                /\ parsed[1].value.selector.kind = KindNamed(k)
                /\ DetailOf(parsed[1].value.selector) = d
                /\ parsed[1].value.ordinal = n

\* C10 (amended): for every well-formed address k[.d]:n parse_action returns
\* a selector of kind k with the ordinal n; it carries the detail d (none
\* when none was written) when k is mouse_press, mouse_release, key_press or
\* key_release, and no detail, whatever was written, when k is mouse_move
\* or wait.
C10_ParseRecovers ==
    parsed # None =>
        \A k \in KindTokens, d \in {None} \cup {Some(t) : t \in DetailTexts},
           n \in 1..MaxOrdinal, suffix \in OrdinalSuffixes :
            raw = Address(k, d, n, suffix) =>
                /\ parsed[1].ok
                /\ parsed[1].value.selector.kind = KindNamed(k)
                /\ DetailOf(parsed[1].value.selector) =
                       IF k \in {S_mouse_move, S_wait} THEN None ELSE d
                /\ parsed[1].value.ordinal = n

\* C10 witness: key_press.KeyA:11th parsed to kind, detail and ordinal 11
C10_Witness ==
    /\ raw = <<"k", "e", "y", "_", "p", "r", "e", "s", "s", ".", "K", "e", "y", "A", ":", "1", "1", "t", "h">>
    /\ parsed = Some(Ok(ActionSelector(SelKeyPress(Some(<<"K", "e", "y", "A">>)), 11)))

(***************************************************************************)
(* Properties of the Run command.                                          *)
(***************************************************************************)
\* the synthetic actions of one event: a key or move event is one request,
\* a button event is a move to its position, the settle delay and the
\* button request, a Wait is a sleep of its duration
SyntheticActions(ev) ==
    IF ev.type = "wait" THEN <<[op |-> "sleep", ms |-> ev.ms]>>
    ELSE IF ev.type = "key_press"
    THEN <<[op |-> "simulate", event |-> [type |-> "KeyPress", key |-> ev.key]]>>
    ELSE IF ev.type = "key_release"
    THEN <<[op |-> "simulate", event |-> [type |-> "KeyRelease", key |-> ev.key]]>>
    ELSE IF ev.type = "mouse_move"
    THEN <<[op |-> "simulate", event |-> [type |-> "MouseMove", x |-> ev.x, y |-> ev.y]]>>
    ELSE <<[op |-> "simulate", event |-> [type |-> "MouseMove", x |-> ev.x, y |-> ev.y]],
           [op |-> "sleep", ms |-> 1],
           [op |-> "simulate",
            event |-> [type |-> IF ev.type = "mouse_press"
                                THEN "ButtonPress" ELSE "ButtonRelease",
                       button |-> ev.button]]>>

\* the synthetic actions of an event list, in order
RECURSIVE ActionsOfList(_)
ActionsOfList(evs) ==
    IF evs = <<>> THEN <<>>
    ELSE SyntheticActions(Head(evs)) \o ActionsOfList(Tail(evs))

\* n copies of a sequence, back to back
RECURSIVE Times(_, _)
Times(seq, n) == IF n = 0 THEN <<>> ELSE seq \o Times(seq, n - 1)

IsPrefix(a, b) == Len(a) <= Len(b) /\ a = SubSeq(b, 1, Len(a))

C8_SingleEventOnce ==
    (pc = "done" /\ action_event # None /\ repeat >= 1) =>
        issued = SyntheticActions(action_event[1])

\* C8 (amended): running a single event addressed by an action selector
\* invokes simulate on the resolved event, an event of the macro, exactly
\* repeat_count times (once for the default of 1) and on nothing else: no
\* Wait or other event of the macro is executed, and nothing is issued when
\* the action is not resolved.
C8_SingleEventRepeats ==
    action # None =>
        IF action_event = None
        THEN issued = <<>>
        ELSE LET whole == Times(SyntheticActions(action_event[1]), repeat)
             IN  /\ \E i \in 1..Len(file.events) : file.events[i] = action_event[1]
                 /\ IsPrefix(issued, whole)
                 /\ pc = "done" => issued = whole

\* C8 witness: key_press:1 resolved between a Wait and another event and
\* run twice
C8_Witness ==
    /\ pc = "done"
    /\ action = Some(<<"k", "e", "y", "_", "p", "r", "e", "s", "s", ":", "1">>)
    /\ repeat = 2
    /\ file = MacroFile(<<Wait(100), KeyPress("KeyA"), KeyRelease("KeyA")>>)
    /\ action_event = Some(KeyPress("KeyA"))
    /\ Len(issued) = 2

\* the number of occurrences of the character c in str
RECURSIVE CountChar(_, _)
CountChar(str, c) ==
    IF str = <<>> THEN 0
    ELSE (IF Head(str) = c THEN 1 ELSE 0) + CountChar(Tail(str), c)

\* the characters of str before and after its first occurrence of c
UpTo(str, c) ==
    IF \E i \in 1..Len(str) : str[i] = c
    THEN SubSeq(str, 1, (CHOOSE i \in 1..Len(str) :
                            str[i] = c /\ \A j \in 1..(i - 1) : str[j] # c) - 1)
    ELSE str
After(str, c) == SubSeq(str, Len(UpTo(str, c)) + 2, Len(str))

\* the number formed by the decimal digits of str, read left to right, and
\* whether it has any
RECURSIVE NumberFormedBy(_, _)
NumberFormedBy(str, acc) ==
    IF str = <<>> THEN acc
    ELSE IF \E v \in 0..9 : DigitChars[v + 1] = Head(str)
         THEN NumberFormedBy(Tail(str),
                  10 * acc + (CHOOSE v \in 0..9 : DigitChars[v + 1] = Head(str)))
         ELSE NumberFormedBy(Tail(str), acc)
HasDigit(str) == \E i \in 1..Len(str), v \in 1..10 : str[i] = DigitChars[v]

\* the flaws of an action string
NoColon(str) == CountChar(str, ":") = 0
ManyColons(str) == CountChar(str, ":") > 1
NoDigit(str) == ~HasDigit(After(str, ":"))
ManyDots(str) == CountChar(UpTo(str, ":"), ".") > 1
UnknownKind(str) == UpTo(UpTo(str, ":"), ".") \notin KindTokens
OrdinalZero(str) == HasDigit(After(str, ":")) /\ NumberFormedBy(After(str, ":"), 0) = 0
Flawed(str) ==
    \/ NoColon(str) \/ ManyColons(str) \/ NoDigit(str)
    \/ ManyDots(str) \/ UnknownKind(str) \/ OrdinalZero(str)

\* the reasons named on rejection
RejectionReasons ==
    {"missing ordinal after ':'", "too many ':' segments", "ordinal is not a number",
     "too many '.' segments", "unsupported event kind", "Ordinal must be 1 or greater"}

\* the selector written by an action string without flaws
WrittenSelector(str) ==
    LET head == UpTo(str, ":")
        kind == KindNamed(UpTo(head, "."))
    IN  IF CountChar(head, ".") = 1 /\ kind \notin {"mouse_move", "wait"}
        THEN [kind |-> kind, detail |-> Some(After(head, "."))]
        ELSE [kind |-> kind]

NonWaitAfter(evs, i) == {j \in (i + 1)..Len(evs) : evs[j].type # "wait"}

\* the first position after i that does not hold a Wait (when there is one)
FirstNonWaitAfter(evs, i) ==
    CHOOSE j \in NonWaitAfter(evs, i) : \A k \in NonWaitAfter(evs, i) : j <= k

\* the press at position i is followed, after Waits only, by a release of
\* the same button at the same coordinates
ReleasedInPlace(evs, i) ==
    /\ NonWaitAfter(evs, i) # {}
    /\ LET rel == evs[FirstNonWaitAfter(evs, i)]
       IN  /\ rel.type = "mouse_release"
           /\ rel.button = evs[i].button
           /\ rel.x = evs[i].x
           /\ rel.y = evs[i].y

\* the printed lines of a given kind
LinesOf(what) == {k \in 1..Len(printed) : printed[k].text.what = what}

\* C12: in the display listing the collapse of every MousePress is attempted
\* once, and the press at index i is collapsed into one click iff the first
\* non-Wait event after i exists and is a MouseRelease with the same button
\* and the same (x,y); on collapse the reported release index is that
\* release and the consumed waits are exactly the Waits strictly between
\* press and release.  The listing shows one click line per collapsed press
\* and one mouse_press line per press that is not collapsed.
C12_ClickCollapse ==
    (pc = "done" /\ "events" \in DOMAIN file) =>
        LET evs == file.events
            presses == {i \in 1..Len(evs) : evs[i].type = "mouse_press"}
            CallsAt(i) == {k \in 1..Len(collapse_log) :
                              collapse_log[k].start_idx = i - 1}
            ResultAt(i) == collapse_log[CHOOSE k \in CallsAt(i) : TRUE].result
        IN  /\ \A i \in presses :
                   /\ Cardinality(CallsAt(i)) = 1
                   /\ ResultAt(i) # None <=> ReleasedInPlace(evs, i)
                   /\ ResultAt(i) # None =>
                          LET j == FirstNonWaitAfter(evs, i)
                              c == ResultAt(i)[1]
                          IN  /\ c.release_idx = j - 1
                              /\ c.waits_consumed = j - i - 1
                              /\ \A w \in (i + 1)..(j - 1) : evs[w].type = "wait"
            /\ Len(collapse_log) = Cardinality(presses)
            /\ ~stat =>
                   /\ Cardinality(LinesOf("click")) =
                          Cardinality({i \in presses : ReleasedInPlace(evs, i)})
                   /\ Cardinality(LinesOf("mouse_press")) =
                          Cardinality({i \in presses : ~ReleasedInPlace(evs, i)})

\* C12 witness: a press, a Wait and the release in place are listed as one
\* click, and a second press released elsewhere is listed as a press
C12_Witness ==
    /\ pc = "done"
    /\ ~stat
    /\ all
    /\ file = MacroFile(<<MousePress("Left", <<0, 0>>), Wait(100),
                          MouseRelease("Left", <<0, 0>>),
                          MousePress("Left", <<0, 0>>)>>)
    /\ Len(collapse_log) = 2
    /\ collapse_log[1].result # None
    /\ collapse_log[1].result[1].release_idx = 2
    /\ collapse_log[1].result[1].waits_consumed = 1
    /\ collapse_log[2].result = None
    /\ Len(printed) = 2

\* the presses that are collapsed, and the Waits and releases consumed by
\* their collapse
CollapsedAt(evs) ==
    {i \in 1..Len(evs) : evs[i].type = "mouse_press" /\ ReleasedInPlace(evs, i)}
ConsumedAt(evs) ==
    {k \in 1..Len(evs) :
        \E i \in CollapsedAt(evs) : i < k /\ k <= FirstNonWaitAfter(evs, i)}

\* the label of an event rendered on its own
OwnLabel(ev) ==
    LET kind == CHOOSE k \in KindTokens : KindNamed(k) = ev.type
    IN  IF NamedBy(ev) = None THEN kind ELSE kind \o <<".">> \o NamedBy(ev)[1]

\* the rendered items carrying a label: collapsed clicks under
\* click.<button>, and the events rendered on their own (Waits only when
\* waits are shown) under their own label
RenderedAs(evs, label) ==
    {i \in CollapsedAt(evs) :
        label = <<"c", "l", "i", "c", "k", ".">> \o NamedBy(evs[i])[1]}
    \cup {i \in 1..Len(evs) \ (CollapsedAt(evs) \cup ConsumedAt(evs)) :
            /\ all \/ evs[i].type # "wait"
            /\ label = OwnLabel(evs[i])}

\* the Waits consumed inside collapsed clicks
ConsumedWaits(evs) == {k \in ConsumedAt(evs) : evs[k].type = "wait"}

\* the characters of labels in byte order, and the lexicographic order
ByteOrder == <<".">> \o DigitChars \o UpperCase \o <<"_">> \o LowerCase
ByteRank(c) == CHOOSE r \in 1..Len(ByteOrder) : ByteOrder[r] = c
LexBefore(a, b) ==
    \/ Len(a) < Len(b) /\ a = SubSeq(b, 1, Len(a))
    \/ \E i \in 1..Len(a) :
          /\ i <= Len(b)
          /\ SubSeq(a, 1, i - 1) = SubSeq(b, 1, i - 1)
          /\ ByteRank(a[i]) < ByteRank(b[i])

\* the statistics lines are sorted by label, without repetition
StatLinesSorted ==
    \A i \in 1..(Len(printed) - 1) : LexBefore(printed[i].label, printed[i + 1].label)

\* C16 (as claimed): statistics mode prints one line per distinct label
\* with the number of rendered items carrying that label, sorted
\* lexicographically by label, a collapsed pair counting once under
\* click.<button> and Waits being counted only when waits are shown.
C16_StatCountsRenderedItems ==
    (pc = "done" /\ stat /\ "events" \in DOMAIN file) =>
        /\ StatLinesSorted
        /\ \A i \in 1..Len(printed) :
               /\ printed[i].count > 0
               /\ printed[i].count =
                      Cardinality(RenderedAs(file.events, printed[i].label))
        /\ \A k \in 1..Len(file.events) :
               (all \/ file.events[k].type # "wait") =>
                   k \in ConsumedAt(file.events)
                   \/ \E i \in 1..Len(printed) :
                          k \in RenderedAs(file.events, printed[i].label)

\* C16 (amended): statistics mode prints one line per distinct label,
\* sorted lexicographically by label; the count of a label is the number of
\* rendered items carrying it (a collapsed pair counting once under
\* click.<button>), except that when waits are shown the count of wait also
\* includes the Waits consumed inside collapsed clicks; without --all no
\* Wait is counted.  One Left click and presses of the keys KeyA and KeyB
\* yield exactly click.Left: 1, key_press.KeyA: 1, key_press.KeyB: 1.
C16_StatCounts ==
    (pc = "done" /\ stat /\ "events" \in DOMAIN file) =>
        LET evs == file.events
            Counted(label) ==
                Cardinality(RenderedAs(evs, label))
                + (IF all /\ label = S_wait
                   THEN Cardinality(ConsumedWaits(evs)) ELSE 0)
        IN  /\ StatLinesSorted
            /\ \A i \in 1..Len(printed) :
                   /\ printed[i].count > 0
                   /\ printed[i].count = Counted(printed[i].label)
            /\ \A k \in 1..Len(evs) :
                   (all \/ evs[k].type # "wait") =>
                       \/ k \in ConsumedAt(evs) /\ evs[k].type = "mouse_release"
                       \/ \E i \in 1..Len(printed) :
                              \/ k \in RenderedAs(evs, printed[i].label)
                              \/ k \in ConsumedWaits(evs) /\ printed[i].label = S_wait
            /\ ~all => \A i \in 1..Len(printed) : printed[i].label # S_wait
            /\ evs = <<MousePress("Left", <<0, 0>>), MouseRelease("Left", <<0, 0>>),
                       KeyPress("KeyA"), KeyPress("KeyB")>>
               => printed =
                    <<[label |-> <<"c", "l", "i", "c", "k", ".", "L", "e", "f", "t">>, count |-> 1],
                      [label |-> <<"k", "e", "y", "_", "p", "r", "e", "s", "s", ".", "K", "e", "y", "A">>, count |-> 1],
                      [label |-> <<"k", "e", "y", "_", "p", "r", "e", "s", "s", ".", "K", "e", "y", "B">>, count |-> 1]>>

\* C16 witness: the statistics of a click with a Wait inside and of two
\* presses of the same key, waits shown
C16_Witness ==
    /\ pc = "done"
    /\ stat
    /\ all
    /\ file = MacroFile(<<MousePress("Left", <<0, 0>>), Wait(100),
                          MouseRelease("Left", <<0, 0>>), KeyPress("KeyB")>>)
    /\ Len(printed) = 3
    /\ printed[1].label = <<"c", "l", "i", "c", "k", ".", "L", "e", "f", "t">>
    /\ printed[3] = [label |-> S_wait, count |-> 1]

(***************************************************************************)
(* Properties of the macro store.                                          *)
(***************************************************************************)
\* C13 (as claimed): for every macro, whatever its description and events,
\* writing it and loading it again yields a macro with the same description
\* and the same events in the same order.
C13_RoundTrip ==
    pc = "done" =>
        /\ loaded[1].ok
        /\ loaded[1].value.description = store_macro[1].description
        /\ loaded[1].value.events = store_macro[1].events

\* C14 (as claimed): a macro file that exists is never replaced by a
\* recording started without --overwrite, also when the file appears
\* between the start of the session and the write at stop detection.
C14_NoReplaceWithoutOverwrite ==
    [][(~overwrite /\ file.exists) => file' = file]_vars

(***************************************************************************)
(* Properties of the commands that read a stored macro.                    *)
(***************************************************************************)
\* the action selector given to the command that is running, if any
GivenSelector ==
    IF pc = "edit" THEN (IF action_flag # None THEN action_flag ELSE action)
    ELSE IF pc \in {"run", "loop", "playing"} THEN action
    ELSE None

\* the selector is flawed, or the macro has fewer matching events than its
\* ordinal
SelectorFails(str, f) ==
    \/ Flawed(str)
    \/ /\ "events" \in DOMAIN f
       /\ Cardinality({i \in 1..Len(f.events) :
                          MatchesKindAndDetail(f.events[i], WrittenSelector(str))})
              < NumberFormedBy(After(str, ":"), 0)

Unparsable(f) == f.exists /\ "events" \notin DOMAIN f

\* the step reports the error if it ends the operation, and does nothing else
StopsCleanly ==
    /\ file' = file
    /\ issued' = <<>>
    /\ launched' = <<>>
    /\ pc' = "done" => report' # <<>>

\* C15 (as claimed): when the named macro is missing or cannot be parsed, or
\* the action selector fails to parse or does not resolve, run, edit, show
\* and rm report the error and stop cleanly: nothing is issued, no editor
\* is launched and the macro file is left as it is.
C15_ErrorsStopCleanly ==
    [][ ( \/ ~file.exists
          \/ Unparsable(file)
          \/ GivenSelector # None /\ SelectorFails(GivenSelector[1], file) )
        => StopsCleanly ]_vars

\* the running operation reads the macro: show, run and edit with an
\* action selector, and a full run that makes at least one repetition
ReadsMacro ==
    \/ pc \in {"show", "show_loop"}
    \/ pc \in {"run", "edit"} /\ GivenSelector # None
    \/ pc \in {"loop", "playing"} /\ repeat > 0

\* C15 (amended): when the named macro is missing, or the operation reads
\* the macro and cannot parse it, or the action selector fails to parse or
\* does not resolve, the operation reports the error and stops cleanly:
\* nothing is issued, no editor is launched and the macro file is left as
\* it is.  rm and edit without an action selector do not read the macro.
C15_ReadErrorsStopCleanly ==
    [][ ( \/ ~file.exists
          \/ Unparsable(file) /\ ReadsMacro
          \/ GivenSelector # None /\ SelectorFails(GivenSelector[1], file) )
        => StopsCleanly ]_vars

\* C15 witness: edit --action wait:1:2 on a stored macro has reported the
\* reason and launched no editor
C15_Witness ==
    /\ pc = "done"
    /\ editor_env # None
    /\ action_flag = Some(<<"w", "a", "i", "t", ":", "1", ":", "2">>)
    /\ file = MacroFile(<<Wait(100)>>)
    /\ report = <<"too many ':' segments">>
    /\ launched = <<>>

(***************************************************************************)
(* Properties of the pointer and of the trailing-keys window in capture.   *)
(***************************************************************************)
\* the position in the delivery log of the first of the last n key presses
DeliveredPresses == {i \in 1..Len(delivered) : delivered[i].ev.type = "KeyPress"}
NthLastDeliveredPress(n) ==
    CHOOSE p \in DeliveredPresses :
        Cardinality({q \in DeliveredPresses : q >= p}) = n

\* after a delivery of one of the given types the window is empty, and no
\* delivery of these types lies between the key presses that completed the
\* stop sequence
EmptiesWindow(types) ==
    /\ (delivered # <<>> /\ Last(delivered).ev.type \in types) => recent_keys = <<>>
    /\ (pc = "stopped" /\ cfg.stop_keystrokes # <<>>) =>
           \A i \in NthLastDeliveredPress(Len(cfg.stop_keystrokes))..Len(delivered) :
               delivered[i].ev.type \notin types

\* C18 (as claimed): every mouse event delivered by the hook (button press,
\* button release, mouse move recorded or not, wheel) empties the
\* trailing-keys window, so stop keys separated by a mouse event never
\* complete the stop sequence.
C18_AnyMouseEventEmptiesWindow ==
    EmptiesWindow({"ButtonPress", "ButtonRelease", "MouseMove", "Wheel"})

\* C18 (amended): every button press, button release and mouse move
\* (recorded or not) delivered by the hook empties the trailing-keys window,
\* so stop keys separated by one of them never complete the stop sequence; a
\* wheel event leaves the window as it was.
C18_ButtonOrMoveEmptiesWindow ==
    /\ EmptiesWindow({"ButtonPress", "ButtonRelease", "MouseMove"})
    /\ (delivered # <<>> /\ Last(delivered).ev.type = "Wheel") =>
           recent_keys = KeysPressedSince(Front(delivered),
                             {"ButtonPress", "ButtonRelease", "MouseMove"})

\* C18 witness: the stop keys Escape, KeyA separated by a mouse move that
\* is not recorded; the session goes on
C18_Witness ==
    /\ cfg.stop_keystrokes = <<"Escape", "KeyA">>
    /\ Len(delivered) = 3
    /\ delivered[1].ev = HookKeyPress("Escape")
    /\ delivered[2].ev.type = "MouseMove" /\ ~delivered[2].rec
    /\ delivered[3].ev = HookKeyPress("KeyA")
    /\ recent_keys = <<"KeyA">>
    /\ pc = "listening"

\* the coordinates of the most recent MouseMove of a delivery log, or the
\* position queried at the start of the session
RECURSIVE LastMoveOf(_)
LastMoveOf(h) ==
    IF h = <<>> THEN StartPos
    ELSE IF Last(h).ev.type = "MouseMove" THEN <<Last(h).ev.x, Last(h).ev.y>>
         ELSE LastMoveOf(Front(h))

\* C19: the MousePress or MouseRelease recorded for a delivered button
\* event carries the coordinates of the most recent MouseMove delivered
\* before it (recorded or not), or the position queried at the start of the
\* session if there was none, and the button event empties the
\* trailing-keys window.
C19_ButtonAtTrackedPosition ==
    [][(/\ Len(delivered') = Len(delivered) + 1
        /\ Last(delivered').ev.type \in {"ButtonPress", "ButtonRelease"})
       => /\ Last(delivered').rec
          /\ Last(events').type =
                 (IF Last(delivered').ev.type = "ButtonPress"
                  THEN "mouse_press" ELSE "mouse_release")
          /\ Last(events').button = Last(delivered').ev.button
          /\ <<Last(events').x, Last(events').y>> = LastMoveOf(delivered)
          /\ recent_keys' = <<>>]_vars

\* C19 witness: a button press recorded at the position of a move that was
\* not recorded, after a key press
C19_Witness ==
    /\ Len(delivered) = 3
    /\ delivered[1].ev = HookKeyPress("KeyA")
    /\ delivered[2].ev = HookMouseMove(<<5, 5>>) /\ ~delivered[2].rec
    /\ delivered[3].ev = HookButtonPress("Left")
    /\ Last(events) = MousePress("Left", <<5, 5>>)
    /\ recent_keys = <<>>

(***************************************************************************)
(* Properties of Event::simulate in playback.                              *)
(***************************************************************************)
\* the requests among what was issued
RequestsOf(q) == SelectSeq(q, LAMBDA r : r.op = "simulate")

\* C20: every synthetic button press or release is immediately preceded by
\* a synthetic pointer move to the (x,y) of the event played, nothing but
\* the settle delay lying between the two; a call of simulate that returns
\* has issued exactly one synthetic event for a KeyPress, KeyRelease or
\* MouseMove, the move and the transition for a button event, and none for
\* a Wait.
C20_MoveBeforeButton ==
    [][issued' # issued =>
        LET ev == IF pc = "playing" THEN play_events[play_idx + 1] ELSE action_event[1]
            added == SubSeq(issued', Len(issued) + 1, Len(issued'))
            reqs == RequestsOf(added)
            isButton(r) == r.op = "simulate"
                           /\ r.event.type \in {"ButtonPress", "ButtonRelease"}
        IN  /\ issued' = issued \o added
            /\ \A i \in 1..Len(added) :
                   isButton(added[i]) =>
                       /\ i = 3
                       /\ ev.type \in {"mouse_press", "mouse_release"}
                       /\ added[1] = Request(HookMouseMove(<<ev.x, ev.y>>))
                       /\ added[2].op = "sleep"
                       /\ added[i].event.button = ev.button
                       /\ (added[i].event.type = "ButtonPress") <=> (ev.type = "mouse_press")
            /\ pc' # "panicked" =>
                   Len(reqs) = (CASE ev.type \in {"key_press", "key_release", "mouse_move"} -> 1
                                  [] ev.type \in {"mouse_press", "mouse_release"} -> 2
                                  [] OTHER -> 0)
            /\ (pc' # "panicked" /\ ev.type \in {"key_press", "key_release", "mouse_move"}) =>
                   Corresponds(ev, reqs[1].event)]_vars

\* C20 witness: a full playback of a press at (5,5) and a key press
C20_Witness ==
    /\ pc = "done"
    /\ action = None
    /\ file = MacroFile(<<MousePress("Left", <<5, 5>>), KeyPress("KeyA")>>)
    /\ issued = <<Request(HookMouseMove(<<5, 5>>)), Sleep(1),
                  Request(HookButtonPress("Left")), Request(HookKeyPress("KeyA"))>>

(***************************************************************************)
(* Properties of the end of a capture session.                             *)
(***************************************************************************)
\* C21 (as claimed): a capture session persists its macro exactly once, at
\* the moment the stop sequence is detected; detection ends the session,
\* so no hook event delivered after it is appended to the recording or
\* causes another write of the macro file.
C21_PersistedOnceAtDetection ==
    /\ writes <= 1
    /\ (writes = 1) <=> (pc = "stopped")
    /\ writes = 1 => EndsWith(recent_keys, cfg.stop_keystrokes)

(***************************************************************************)
(* Properties of a failed request in playback.                             *)
(***************************************************************************)
\* C22: when a synthetic input request fails, what the failing call of
\* simulate has issued is the part of its event that precedes the failed
\* request, no repetition and no event is counted as done, and nothing is
\* issued afterwards: no later event, no further repetition.
C22_FailureAborts ==
    [][/\ pc = "panicked" => (issued' = issued /\ pc' = pc)
       /\ (pc # "panicked" /\ pc' = "panicked") =>
              LET ev == IF pc = "playing" THEN play_events[play_idx + 1]
                        ELSE action_event[1]
                  n == Len(issued') - Len(issued)
              IN  /\ n >= 0
                  /\ n < Len(SimulateSteps(ev))
                  /\ issued' = issued \o SubSeq(SimulateSteps(ev), 1, n)
                  /\ SimulateSteps(ev)[n + 1].op = "simulate"
                  /\ rep' = rep
                  /\ play_idx' = play_idx]_vars

\* C22 witness: the button request of the first event fails after its move;
\* the key press after it and the second repetition are never issued
C22_Witness ==
    /\ pc = "panicked"
    /\ action = None
    /\ repeat = 2
    /\ rep = 0
    /\ file = MacroFile(<<MousePress("Left", <<5, 5>>), KeyPress("KeyA")>>)
    /\ issued = <<Request(HookMouseMove(<<5, 5>>)), Sleep(1)>>

(***************************************************************************)
(* Properties of the display loop.                                         *)
(***************************************************************************)
\* the events rendered as items: those not consumed by a collapsed click,
\* Waits only when waits are shown
RenderedAt(evs) ==
    {i \in 1..Len(evs) \ ConsumedAt(evs) : all \/ evs[i].type # "wait"}

\* C23: the cursor of the display loop strictly increases on each iteration
\* and never passes the end of the list, and the loop ends with the cursor
\* at the end, every event accounted for once: a Wait that is not shown is
\* skipped, a press released in place is rendered as one click together
\* with the Waits and the release it consumes, and every other event is
\* rendered as its own item; a press whose collapse fails is rendered as a
\* plain press and the cursor advances by exactly one.
C23_LoopAccountsOnce ==
    [][pc = "show_loop" =>
        LET evs == file.events
            i == show_idx + 1
        IN  /\ show_idx' # show_idx =>
                   /\ show_idx < show_idx'
                   /\ show_idx' <= Len(evs)
                   /\ IF ~all /\ evs[i].type = "wait"
                      THEN /\ show_idx' = show_idx + 1
                           /\ shown' = shown
                           /\ printed' = printed
                           /\ stats' = stats
                      ELSE IF evs[i].type = "mouse_press" /\ ReleasedInPlace(evs, i)
                      THEN /\ show_idx' = FirstNonWaitAfter(evs, i)
                           /\ shown' = shown + 1
                           /\ ~stat => /\ Len(printed') = Len(printed) + 1
                                       /\ Last(printed').n = shown + 1
                                       /\ Last(printed').text.what = "click"
                      ELSE /\ show_idx' = show_idx + 1
                           /\ shown' = shown + 1
                           /\ ~stat => /\ Len(printed') = Len(printed) + 1
                                       /\ Last(printed').n = shown + 1
                                       /\ Last(printed').text.what = evs[i].type
            /\ pc' = "done" =>
                   /\ show_idx = Len(evs)
                   /\ shown = Cardinality(RenderedAt(evs))
                   /\ ~stat => Len(printed) = shown]_vars

\* C23 witness: a press that is not released in place is listed as a press,
\* the Wait after it is skipped and the release is listed on its own
C23_Witness ==
    /\ pc = "done"
    /\ ~stat
    /\ ~all
    /\ file = MacroFile(<<MousePress("Left", <<0, 0>>), Wait(100),
                          MouseRelease("Left", <<5, 5>>)>>)
    /\ show_idx = 3
    /\ shown = 2
    /\ Len(printed) = 2
    /\ printed[1].text.what = "mouse_press"
    /\ printed[2].text.what = "mouse_release"

(***************************************************************************)
(* Properties of wheel events in capture.                                  *)
(***************************************************************************)
\* C24: under every configuration the delivery of a Wheel event appends
\* neither an event nor a Wait to the recording and leaves the tracked
\* pointer position, the button-held flag and the last-event timestamp
\* unchanged.
C24_WheelDropped ==
    [][(/\ Len(delivered') = Len(delivered) + 1
        /\ Last(delivered').ev.type = "Wheel")
       => /\ ~Last(delivered').rec
          /\ events' = events
          /\ mouse_pos' = mouse_pos
          /\ mouse_pressed' = mouse_pressed
          /\ last_event_time' = last_event_time]_vars

\* C24 witness: under Actual waits, a wheel event delivered while a button
\* is held at a tracked position, after two recorded events
C24_Witness ==
    /\ cfg.wait_strategy = Actual
    /\ cfg.stop_keystrokes # <<>>
    /\ Len(delivered) = 3
    /\ delivered[1].ev = HookMouseMove(<<5, 5>>)
    /\ delivered[2].ev = HookButtonPress("Left")
    /\ delivered[3].ev = HookWheel
    /\ mouse_pos = <<5, 5>>
    /\ mouse_pressed
    /\ last_event_time = Some(delivered[2].t)
    /\ Last(events) = MousePress("Left", <<5, 5>>)

(***************************************************************************)
(* Properties of the listing.                                              *)
(***************************************************************************)
\* C25 (as claimed): the listing holds one (name, description) entry for
\* every macro file of the directory, the name being the file stem, and
\* no macro is left out, whatever the other files of the directory hold.
C25_EveryMacroListed ==
    pc = "done" =>
        LET macros == {i \in 1..Len(dir) : dir[i].kind = "macro"}
        IN  /\ Len(listed) = Cardinality(macros)
            /\ \A i \in macros :
                   \E k \in 1..Len(listed) :
                       listed[k] = [name |-> dir[i].stem,
                                    description |-> dir[i].description]

(***************************************************************************)
(* Properties of the persisted event list.                                 *)
(***************************************************************************)
\* the recorded deliveries before delivery d
RecordedBefore(d) == {r \in 1..(d - 1) : delivered[r].rec}

\* C26: with a non-empty stop sequence the persisted event list is exactly
\* the accumulator truncated immediately before the KeyPress that begins
\* the matched stop sequence, and the Wait synthesized for that key press,
\* when the strategy produced one, is the last persisted event.
C26_TruncatedBeforeStop ==
    (pc = "stopped" /\ cfg.stop_keystrokes # <<>>) =>
        LET n == Len(cfg.stop_keystrokes)
            p == NthLastKeyPress(events, n)
            d == NthLastDeliveredPress(n)
            before == RecordedBefore(d)
            prev == CHOOSE r \in before : \A q \in before : q <= r
        IN  /\ events[p] = KeyPress(cfg.stop_keystrokes[1])
            /\ delivered[d].ev = HookKeyPress(cfg.stop_keystrokes[1])
            /\ file.events = SubSeq(events, 1, p - 1)
            /\ IF cfg.wait_strategy.kind # "Actual"
               THEN Last(file.events) = Wait(cfg.wait_strategy.ms)
               ELSE IF before # {}
               THEN Last(file.events) = Wait(delivered[d].t - delivered[prev].t)
               ELSE file.events = <<Wait(cfg.recording_initial_wait_ms)>>

\* C26 witness: under Actual waits the session is ended by Escape, KeyA
\* after a press of KeyA; the Wait of the Escape press is the last
\* persisted event
C26_Witness ==
    /\ pc = "stopped"
    /\ cfg.wait_strategy = Actual
    /\ cfg.stop_keystrokes = <<"Escape", "KeyA">>
    /\ Len(delivered) = 4
    /\ delivered[1].ev = HookKeyPress("KeyA")
    /\ delivered[2].ev = HookKeyPress("Escape")
    /\ delivered[3].ev = HookKeyRelease("Escape")
    /\ file.events = <<Wait(cfg.recording_initial_wait_ms), KeyPress("KeyA"),
                       Wait(delivered[2].t - delivered[1].t)>>

(***************************************************************************)
(* Properties of the statistics with waits shown.                          *)
(***************************************************************************)
\* the sum of the counts of statistics lines
RECURSIVE SumCounts(_)
SumCounts(lines) ==
    IF lines = <<>> THEN 0 ELSE Last(lines).count + SumCounts(Front(lines))

\* C27: in statistics mode with waits shown the count printed for wait is
\* the number of Wait events of the macro, rendered on their own or
\* consumed inside a collapsed click (no wait line when there is none),
\* and the printed counts add up to the number of events minus one for
\* each collapsed click.
C27_WaitTotals ==
    (pc = "done" /\ stat /\ all /\ "events" \in DOMAIN file) =>
        LET evs == file.events
            waits == {i \in 1..Len(evs) : evs[i].type = "wait"}
            waitLines == {k \in 1..Len(printed) : printed[k].label = S_wait}
        IN  /\ Cardinality(waitLines) = (IF waits = {} THEN 0 ELSE 1)
            /\ \A k \in waitLines : printed[k].count = Cardinality(waits)
            /\ SumCounts(printed) = Len(evs) - Cardinality(CollapsedAt(evs))

\* C27 witness: a Wait on its own and a Wait inside a click are both
\* counted, and the two lines add up to three for four events
C27_Witness ==
    /\ pc = "done"
    /\ stat
    /\ all
    /\ file = MacroFile(<<Wait(100), MousePress("Left", <<0, 0>>), Wait(100),
                          MouseRelease("Left", <<0, 0>>)>>)
    /\ Len(printed) = 2
    /\ printed[2] = [label |-> S_wait, count |-> 2]
    /\ printed[1].count = 1

(***************************************************************************)
(* Properties of the line of an event in the text of a macro file.         *)
(***************************************************************************)
\* the lines of a text that hold the marker and nothing else
MarkersOf(lines) == {k \in 1..Len(lines) : lines[k] = MarkerLine}

\* the line that follows the marker at line k holds the tag of the event
TagAfter(lines, k, ev) ==
    /\ k < Len(lines)
    /\ \/ Len(lines[k + 1]) = 3 /\ lines[k + 1][1] = ev.type
       \/ Len(lines[k + 1]) = 2 /\ lines[k + 1][2] = ev.type

\* event_start_line(lines, i) is the (i+1)-th marker line of the text, and
\* none iff the text has at most i marker lines
NthMarker(lines) ==
    \A i \in 0..(Len(lines) + 1) :
        LET r == event_start_line(lines, i)
        IN  /\ r = None <=> Cardinality(MarkersOf(lines)) <= i
            /\ r # None =>
                   /\ r[1] \in MarkersOf(lines)
                   /\ Cardinality({k \in MarkersOf(lines) : k < r[1]}) = i

\* C28 (as claimed): event_start_line(contents, i) is the 1-based number of
\* the (i+1)-th line that holds [[events]], and none iff there are at most
\* i such lines; the text written for a macro holds exactly one such line
\* per event, in order, so the index of every event maps to the marker
\* line of that event.
C28_IndexMapsToMarker ==
    pc \in {"saved", "done"} =>
        LET evs == store_macro[1].events
        IN  /\ NthMarker(contents)
            /\ Cardinality(MarkersOf(contents)) = Len(evs)
            /\ \A i \in 1..Len(evs) :
                   LET r == event_start_line(contents, i - 1)
                   IN  r # None /\ TagAfter(contents, r[1], evs[i])

\* the same for the macros whose description holds no line [[events]]
C28_PlainDescriptions ==
    (\A k \in 1..Len(store_macro[1].description) :
        store_macro[1].description[k] # "[[events]]")
    => C28_IndexMapsToMarker

====
